---- MODULE Spec2Model ----
(***************************************************************************)
(* Model of the OAuth2 authorization-code acquisition engine of            *)
(* colab-vscode: ProxiedRedirectFlow.trigger and its manual-entry prompt   *)
(* (src/src/auth/flows/proxied.ts), the MultiStepInput controller          *)
(* (src/src/common/multi-step-quickpick.ts), the ExtensionUriHandler       *)
(* (src/src/system/uri.ts) and the nonce -> pending-request registry       *)
(* (CodeManager, known here only through its contract).                    *)
(*                                                                         *)
(* Scheduling: JavaScript runs one event-loop task at a time and drains    *)
(* every promise continuation before the next task.  Each action below is  *)
(* therefore one task (a call, a host callback, a timer, a user event)     *)
(* together with all the continuations it makes runnable.                  *)
(***************************************************************************)
EXTENDS Integers, Sequences, FiniteSets, TLC

\* ---------------------------------------------------------------- bounds
\* The clock runs from 0 to MaxTime seconds and advances by at most TickStep.
MaxTime == 90
TickStep == 30

\* ------------------------------------------------------------- constants
\* Ceiling, in seconds, of one registration ("observed: 60 seconds").
EXCHANGE_TIMEOUT == 60

\* Two invocations of trigger, numbered in the order of the calls; they may
\* overlap and may share a nonce.
Invs == {1, 2}
Nonces == {"n1", "n2"}

\* Text the user can have in the manual-entry box; "" is the empty string.
Texts == {"", "7"}

Undefined == "<undefined>"

\* value.length === 0
IsEmpty(s) == s = ""

\* JavaScript falsiness of a string | undefined | null value.
Falsy(m) == m = Undefined \/ m = ""

\* ------------------------------------------------------------------ URIs
\* A URI is its part before "?" and its query, an ordered list of
\* <<name, value>> pairs.
Uri(base, query) == [base |-> base, query |-> query]

\* const PROXIED_REDIRECT_URI = `${CONFIG.ColabApiDomain}/vscode/redirect`
PROXIED_REDIRECT_URI == Uri("https://<ColabApiDomain>/vscode/redirect", <<>>)

\* The extensionUri the flow is constructed with.
ExtensionUri == "vscode://google.colab"

\* this.vs.Uri.parse(`${this.extensionUri}?nonce=${options.nonce}`)
VsCodeRedirectUri(n) == Uri(ExtensionUri, << <<"nonce", n>> >>)

\* What env.asExternalUri may answer: the host keeps the query and may add
\* fields of its own (the tests use windowId=1).
ExternalUris(u) ==
    { Uri(u.base, u.query \o << <<"windowId", "1">> >>) }

\* oAuth2Client.generateAuthUrl({...DEFAULT_AUTH_URL_OPTS, redirect_uri,
\* state, scope, code_challenge}) as the parameters it is given.
GenerateAuthUrl(external) ==
    [redirect_uri |-> PROXIED_REDIRECT_URI, state |-> external]

NoUrl == [redirect_uri |-> Uri("", <<>>), state |-> Uri("", <<>>)]

\* Inbound deep links: the callback URI as the host externalized it, with
\* or without a nonce field and a code field, either of them possibly empty.
Field(name, values) == {<<>>} \cup {<< <<name, v>> >> : v \in values}

LinkQueries ==
    {n \o << <<"windowId", "1">> >> \o c :
        n \in Field("nonce", Nonces \cup {""}), c \in Field("code", {"42", ""})}

DeepLinks == {Uri(ExtensionUri, q) : q \in LinkQueries}

None == [has |-> FALSE, val |-> ""]
Some(v) == [has |-> TRUE, val |-> v]

\* new URLSearchParams(uri.query).get(name): the first value, or null.
RECURSIVE QueryGet(_, _)
QueryGet(query, name) ==
    IF query = <<>> THEN None
    ELSE IF Head(query)[1] = name THEN Some(Head(query)[2])
    ELSE QueryGet(Tail(query), name)

\* "present and non-empty"
Present(opt) == opt.has /\ ~IsEmpty(opt.val)

\* ------------------------------------------------- NonceCodeRegistry
\* The registry (CodeManager) is known through its contract only:
\* waitForCode(nonce, cancellationSignal), resolveCode(nonce, code), a
\* rejection when the signal fires and a rejection at the ceiling.
\*   inFlight : nonce -> the invocation whose request is pending (0: none)
\*   promise  : per waitForCode call, the promise it returned
\*   timer    : per waitForCode call, the deadline of its armed timer (-1:
\*              no timer armed)
\*   settles  : per waitForCode call, how often resolve/reject was invoked
\* While a promise is pending, regAt is the time of its registration.
NoOwner == 0
NoTimer == -1

NoPromise == [state |-> "none", value |-> "", regAt |-> 0]

EmptyRegistry ==
    [inFlight |-> [n \in Nonces |-> NoOwner],
     promise  |-> [i \in Invs |-> NoPromise],
     timer    |-> [i \in Invs |-> NoTimer],
     settles  |-> [i \in Invs |-> 0]]

HasPending(cm, n) == cm.inFlight[n] # NoOwner

\* Mutant of IsDuplicateNonce: a second registration replaces the first.
IsDuplicateNonce_Overwrites(cm, n) == FALSE

\* waitForCode(nonce, token): a request is already pending for the nonce, the
\* call fails with DuplicateNonce.
IsDuplicateNonce(cm, n) == HasPending(cm, n)

\* Mutant of WaitForCode: the timer is armed with twice the ceiling.
WaitForCode_LateTimer(cm, i, n, t) ==
    [cm EXCEPT !.inFlight[n] = i,
               !.promise[i] = [NoPromise EXCEPT !.state = "pending", !.regAt = t],
               !.timer[i] = t + 2 * EXCHANGE_TIMEOUT]

\* waitForCode(nonce, token) when no request is pending for the nonce:
\* registers the request and arms its timer.
WaitForCode(cm, i, n, t) ==
    [cm EXCEPT !.inFlight[n] = i,
               !.promise[i] = [NoPromise EXCEPT !.state = "pending", !.regAt = t],
               !.timer[i] = t + EXCHANGE_TIMEOUT]

\* Mutant of SettleEntry: the promise is settled but the entry stays in the
\* table and the timer stays armed.
SettleEntry_KeepsEntry(cm, n, state, value) ==
    IF ~HasPending(cm, n) THEN cm
    ELSE LET i == cm.inFlight[n] IN
         [cm EXCEPT !.promise[i] = [NoPromise EXCEPT !.state = state, !.value = value],
                    !.settles[i] = @ + 1]

\* First completion of the request pending for n: settle the promise, clear
\* the timer and remove the entry, in one step.
SettleEntry(cm, n, state, value) ==
    IF ~HasPending(cm, n) THEN cm
    ELSE LET i == cm.inFlight[n] IN
         [cm EXCEPT !.inFlight[n] = NoOwner,
                    !.promise[i] = [NoPromise EXCEPT !.state = state, !.value = value],
                    !.timer[i] = NoTimer,
                    !.settles[i] = @ + 1]

\* Mutant of ResolveCode: a code for a nonce without a pending request goes
\* to the requests that are pending.
ResolveCode_Fallback(cm, n, code) ==
    IF n \in Nonces /\ HasPending(cm, n) THEN SettleEntry(cm, n, "resolved", code)
    ELSE SettleEntry(SettleEntry(cm, "n1", "resolved", code), "n2", "resolved", code)

\* resolveCode(nonce, code): a no-op when nothing is pending for the nonce.
ResolveCode(cm, n, code) ==
    IF n \in Nonces THEN SettleEntry(cm, n, "resolved", code) ELSE cm

\* The nonce under which invocation i is registered, if it still is.
RegisteredNonces(cm, i) == {n \in Nonces : cm.inFlight[n] = i}

\* The cancellation signal given to invocation i's waitForCode fired.
CancelWait(cm, i) ==
    IF RegisteredNonces(cm, i) = {} THEN cm
    ELSE SettleEntry(cm, CHOOSE n \in RegisteredNonces(cm, i) : TRUE,
                     "rejected", "cancelled")

\* The timer of invocation i's waitForCode fired.
TimerFires(cm, i) ==
    IF RegisteredNonces(cm, i) = {} THEN [cm EXCEPT !.timer[i] = NoTimer]
    ELSE SettleEntry(cm, CHOOSE n \in RegisteredNonces(cm, i) : TRUE,
                     "rejected", "timeout")

Settled(p) == p.state \in {"resolved", "rejected"}

\* ------------------------------------------------------ MultiStepInput
\* One MultiStepInput object: the promise run() returned (state, error),
\* this.steps, this.current (an index into widgets, 0 for undefined) and
\* every widget the host created for it, in creation order.
\* A widget records what the host shows (value, validationMessage, password,
\* buttons, enabled, busy, shown), how often it was disposed, the event
\* subscriptions still registered on it (subs), how many subscriptions were
\* disposed (released) and the user event that ended its prompt (closedBy).
\* calls is the order in which the steps were invoked and received, per call,
\* what the primitive the step awaited resolved with (NoValue while it has
\* not).
NewMultiStepInput ==
    [state |-> "none", error |-> "", steps |-> <<>>, current |-> 0,
     widgets |-> <<>>, calls |-> <<>>, received |-> <<>>]

NoValue == "<no value>"

\* An InputStep is a function; the model keeps what the function does: its
\* name, the primitive it awaits (kind: "inputBox", "quickPick", or "none"
\* for a step that shows nothing), the options it passes and the step it
\* returns once the primitive resolved (NoStep for undefined).
NoStep == [id |-> "undefined"]
InputStep(id, kind, opts, next) ==
    [id |-> id, kind |-> kind, opts |-> opts, next |-> next]

\* step?: number and totalSteps?: number when they are not given.
NoCount == 0

\* static back = new InputFlowAction("back"); static cancel = ...("cancel")
InputFlowBack == "back"
InputFlowCancel == "cancel"

\* The options promptForAuthorizationCode passes to showInputBox.
PromptOpts ==
    [buttons |-> {}, ignoreFocusOut |-> TRUE, password |-> TRUE,
     prompt |-> "Enter your authorization code",
     title |-> "Sign in to Google", value |-> "",
     validate |-> "PromptValidate",
     step |-> NoCount, totalSteps |-> NoCount, placeholder |-> Undefined]

\* Mutant of PromptValidate: the validator has no message for any value.
PromptValidate_AcceptsAny(value) == Undefined

\* validate: (value) => value.length === 0 ? "..." : undefined
PromptValidate(value) ==
    IF IsEmpty(value) THEN "Authorization code cannot be empty" ELSE Undefined

\* The options of the tests: a picker with the one item "foo", and a text
\* entry whose validator accepts anything.
ONLY_FOO ==
    [title |-> "Select foo", step |-> 1, totalSteps |-> 1,
     items |-> <<"foo">>, placeholder |-> Undefined, activeItem |-> Undefined,
     buttons |-> {}]

ENTER_A_VALUE ==
    [title |-> "Got a value?", step |-> 1, totalSteps |-> 1, value |-> "",
     prompt |-> "Enter a value", placeholder |-> Undefined,
     validate |-> "accept any", buttons |-> {}]

\* validate: (text) => (text === "foo" ? undefined : needFoo)
NeedFoo(text) == IF text = "foo" THEN Undefined ELSE "Nope, need 'foo'"

\* opts.validate(text) for the validators in use.
Validate(name, text) ==
    CASE name = "PromptValidate" -> PromptValidate(text)
      [] name = "needFoo" -> NeedFoo(text)
      [] OTHER -> Undefined

\* window.createInputBox() / window.createQuickPick(): a widget that is not
\* shown yet, with the host's defaults.
CreateQuickInput(kind) ==
    [kind |-> kind, title |-> Undefined, step |-> NoCount, totalSteps |-> NoCount,
     value |-> "", prompt |-> Undefined, placeholder |-> Undefined,
     items |-> <<>>, activeItems |-> <<>>,
     validationMessage |-> Undefined, password |-> FALSE, buttons |-> {},
     enabled |-> TRUE, busy |-> FALSE, shown |-> FALSE, disposed |-> 0,
     subs |-> {}, released |-> 0, closedBy |-> ""]

\* quickInput.dispose() of widget k (k = 0: there is none).
DisposeWidget(m, k) ==
    IF k = 0 THEN m
    ELSE [m EXCEPT !.widgets[k].disposed = @ + 1, !.widgets[k].shown = FALSE]

\* showInputBox up to the point where the promise is awaited: create the
\* box, copy title/value/prompt/placeholder/buttons, subscribe hide, button,
\* accept and change-value, dispose the previous widget, show the new one.
ShowInputBox(m, opts) ==
    LET input == [CreateQuickInput("inputBox") EXCEPT
                      !.title = opts.title,
                      !.step = opts.step,
                      !.totalSteps = opts.totalSteps,
                      !.value = IF Falsy(opts.value) THEN "" ELSE opts.value,
                      !.prompt = opts.prompt,
                      !.placeholder = opts.placeholder,
                      !.buttons = opts.buttons,
                      !.subs = {"hide", "button", "accept", "change"},
                      !.shown = TRUE]
        d == DisposeWidget(m, m.current)
    IN [d EXCEPT !.widgets = Append(@, input), !.current = Len(d.widgets) + 1]

\* Mutant of ShowQuickPick: the picker is shown without this.current?.dispose().
ShowQuickPick_KeepsPrevious(m, opts) ==
    LET input == [CreateQuickInput("quickPick") EXCEPT
                      !.title = opts.title,
                      !.step = opts.step,
                      !.totalSteps = opts.totalSteps,
                      !.placeholder = opts.placeholder,
                      !.items = opts.items,
                      !.activeItems = IF opts.activeItem = Undefined THEN <<>>
                                      ELSE <<opts.activeItem>>,
                      !.buttons = opts.buttons,
                      !.subs = {"hide", "button", "selection"},
                      !.shown = TRUE]
    IN [m EXCEPT !.widgets = Append(@, input), !.current = Len(m.widgets) + 1]

\* showQuickPick up to the point where the promise is awaited: create the
\* picker, copy title/step/totalSteps/placeholder/items/activeItem/buttons,
\* subscribe hide, button and change-selection, dispose the previous widget,
\* show the new one.
ShowQuickPick(m, opts) ==
    LET input == [CreateQuickInput("quickPick") EXCEPT
                      !.title = opts.title,
                      !.step = opts.step,
                      !.totalSteps = opts.totalSteps,
                      !.placeholder = opts.placeholder,
                      !.items = opts.items,
                      !.activeItems = IF opts.activeItem = Undefined THEN <<>>
                                      ELSE <<opts.activeItem>>,
                      !.buttons = opts.buttons,
                      !.subs = {"hide", "button", "selection"},
                      !.shown = TRUE]
        d == DisposeWidget(m, m.current)
    IN [d EXCEPT !.widgets = Append(@, input), !.current = Len(d.widgets) + 1]

\* Mutant of ReleaseSubscriptions: the subscriptions are disposed after the
\* await instead of in a finally block, so a rejection skips the disposal.
ReleaseSubscriptions_NoFinally(m, k) ==
    IF m.widgets[k].closedBy \in {"back", "hide"} THEN m
    ELSE [m EXCEPT !.widgets[k].released = @ + Cardinality(m.widgets[k].subs),
                   !.widgets[k].subs = {}]

\* The finally block of a step primitive: every registered subscription of
\* the widget the primitive showed is disposed.
ReleaseSubscriptions(m, k) ==
    [m EXCEPT !.widgets[k].released = @ + Cardinality(m.widgets[k].subs),
              !.widgets[k].subs = {}]

\* Mutant of PushStep: the step is pushed, the current widget is left as it
\* is.
PushStep_LeavesWidget(m, step) == [m EXCEPT !.steps = Append(@, step)]

\* Head of the loop in step(): push the step, grey out the current widget.
PushStep(m, step) ==
    LET pushed == [m EXCEPT !.steps = Append(@, step)] IN
    IF m.current # 0
    THEN [pushed EXCEPT !.widgets[m.current].enabled = FALSE,
                        !.widgets[m.current].busy = TRUE]
    ELSE pushed

\* What a step does between being called and its first await: it shows its
\* input box or its picker, or nothing.
CallStep(m, step) ==
    CASE step.kind = "inputBox" -> ShowInputBox(m, step.opts)
      [] step.kind = "quickPick" -> ShowQuickPick(m, step.opts)
      [] OTHER -> m

\* One pass of the loop up to the await of the step.
InvokeStep(m, step) ==
    [CallStep(PushStep(m, step), step) EXCEPT !.calls = Append(@, step.id),
                                              !.received = Append(@, NoValue)]

\* Mutant of LeaveLoop: the loop has no finally block, the widget current at
\* the end is left as it is.
LeaveLoop_NoFinally(m, state, error) ==
    [m EXCEPT !.state = state, !.error = error]

\* The loop is left: the finally block disposes the current widget and the
\* promise of run() settles.
LeaveLoop(m, state, error) ==
    [DisposeWidget(m, m.current) EXCEPT !.state = state, !.error = error]

\* The awaited step returned undefined: the flow is complete.
StepReturned(m) == LeaveLoop(m, "fulfilled", "")

\* Mutant of StepThrew: on Back only the step that threw is popped, and it is
\* the one invoked again.
StepThrew_RetriesStep(m, err) ==
    IF err = InputFlowBack
    THEN LET popped == [m EXCEPT !.steps = SubSeq(@, 1, Len(@) - 1)] IN
         IF Len(popped.steps) = 0
         THEN LeaveLoop(popped, "rejected", err)
         ELSE InvokeStep(popped, m.steps[Len(m.steps)])
    ELSE IF err = InputFlowCancel
    THEN LeaveLoop(m, "fulfilled", "")
    ELSE LeaveLoop(m, "rejected", err)

\* Mutant of StepThrew: on Back the previous step is read from the stack but
\* left on it, so the loop pushes it a second time.
StepThrew_PeeksPrevious(m, err) ==
    IF err = InputFlowBack
    THEN LET popped == [m EXCEPT !.steps = SubSeq(@, 1, Len(@) - 1)] IN
         IF Len(popped.steps) = 0
         THEN LeaveLoop(popped, "rejected", err)
         ELSE InvokeStep(popped, popped.steps[Len(popped.steps)])
    ELSE IF err = InputFlowCancel
    THEN LeaveLoop(m, "fulfilled", "")
    ELSE LeaveLoop(m, "rejected", err)

\* Mutant of StepThrew: Cancel has no case of its own and is rethrown like
\* any other error.
StepThrew_CancelRethrown(m, err) ==
    IF err = InputFlowBack
    THEN LET popped == [m EXCEPT !.steps = SubSeq(@, 1, Len(@) - 1)] IN
         IF Len(popped.steps) = 0
         THEN LeaveLoop(popped, "rejected", err)
         ELSE InvokeStep([popped EXCEPT !.steps = SubSeq(@, 1, Len(@) - 1)],
                         popped.steps[Len(popped.steps)])
    ELSE LeaveLoop(m, "rejected", err)

\* Mutant of StepThrew: the switch has no default case; an error that is
\* neither Back nor Cancel ends the loop like Cancel does.
StepThrew_SwallowsOther(m, err) ==
    IF err = InputFlowBack
    THEN LET popped == [m EXCEPT !.steps = SubSeq(@, 1, Len(@) - 1)] IN
         IF Len(popped.steps) = 0
         THEN LeaveLoop(popped, "rejected", err)
         ELSE InvokeStep([popped EXCEPT !.steps = SubSeq(@, 1, Len(@) - 1)],
                         popped.steps[Len(popped.steps)])
    ELSE LeaveLoop(m, "fulfilled", "")

\* The awaited step threw err.
StepThrew(m, err) ==
    IF err = InputFlowBack
    THEN LET popped == [m EXCEPT !.steps = SubSeq(@, 1, Len(@) - 1)] IN
         IF Len(popped.steps) = 0
         THEN LeaveLoop(popped, "rejected", err)
         ELSE InvokeStep([popped EXCEPT !.steps = SubSeq(@, 1, Len(@) - 1)],
                         popped.steps[Len(popped.steps)])
    ELSE IF err = InputFlowCancel
    THEN LeaveLoop(m, "fulfilled", "")
    ELSE LeaveLoop(m, "rejected", err)

\* Mutant of StepChains: the step returned takes the place of the one on top
\* of the stack instead of being pushed above it.
StepChains_ReplacesTop(m, next) ==
    IF next = NoStep THEN StepReturned(m)
    ELSE InvokeStep([m EXCEPT !.steps = SubSeq(@, 1, Len(@) - 1)], next)

\* The awaited step returned next: the loop goes on with it, or ends when it
\* is undefined.
StepChains(m, next) ==
    IF next = NoStep THEN StepReturned(m) ELSE InvokeStep(m, next)

\* static run(vs, start): a new controller running start.
Run(start) ==
    InvokeStep([NewMultiStepInput EXCEPT !.state = "running"], start)

\* The step promptForAuthorizationCode gives to run.
PromptStep ==
    InputStep("promptForAuthorizationCode", "inputBox", PromptOpts, NoStep)

\* Mutant of PromptCatch: Cancel is absorbed without being forwarded to the
\* cancellation source.
PromptCatch_Swallows(e) ==
    IF e = InputFlowCancel
    THEN [cancels |-> FALSE, threw |-> FALSE]
    ELSE [cancels |-> FALSE, threw |-> TRUE]

\* Mutant of PromptCatch: Back is absorbed like Cancel and forwarded to the
\* cancellation source.
PromptCatch_AbsorbsBack(e) ==
    IF e \in {InputFlowCancel, InputFlowBack}
    THEN [cancels |-> TRUE, threw |-> FALSE]
    ELSE [cancels |-> FALSE, threw |-> TRUE]

\* The catch block of the manual-entry step: Cancel is absorbed and
\* forwarded to the shared cancellation source, anything else is rethrown.
PromptCatch(e) ==
    IF e = InputFlowCancel
    THEN [cancels |-> TRUE, threw |-> FALSE]
    ELSE [cancels |-> FALSE, threw |-> TRUE]

\* The elements of a sequence.
Elements(seq) == {seq[j] : j \in 1..Len(seq)}

\* ------------------------------------------------- ExtensionUriHandler
\* Those who subscribe to onReceivedUri.
Listeners == {"a", "b"}

\* new ExtensionUriHandler(vs): an emitter with no listener yet.  handled
\* and delivered record what handleUri was given and what each listener was
\* called with.
NewExtensionUriHandler ==
    [listeners |-> {}, disposed |-> FALSE, handled |-> <<>>,
     delivered |-> [l \in Listeners |-> <<>>]]

\* onReceivedUri(listener): the emitter's event adds the listener; a
\* disposed emitter takes none.
SubscribeListener(h, l) ==
    IF h.disposed THEN h ELSE [h EXCEPT !.listeners = @ \cup {l}]

\* dispose() of the subscription onReceivedUri returned.
UnsubscribeListener(h, l) == [h EXCEPT !.listeners = @ \ {l}]

\* Mutant of EmitterFire: only a URI that carries a nonce is passed on.
EmitterFire_FiltersNonce(h, uri) ==
    IF Present(QueryGet(uri.query, "nonce"))
    THEN [h EXCEPT !.delivered =
            [l \in Listeners |->
                IF l \in h.listeners THEN Append(@[l], uri) ELSE @[l]]]
    ELSE h

\* this.uriEmitter.fire(uri): every listener subscribed at that moment is
\* called with the URI, once.
EmitterFire(h, uri) ==
    [h EXCEPT !.delivered =
        [l \in Listeners |->
            IF l \in h.listeners THEN Append(@[l], uri) ELSE @[l]]]

\* handleUri(uri)
HandlerHandleUri(h, uri) == [EmitterFire(h, uri) EXCEPT !.handled = Append(@, uri)]

\* dispose(): this.uriEmitter.dispose() drops the listeners.
DisposeHandler(h) == [h EXCEPT !.listeners = {}, !.disposed = TRUE]

\* ------------------------------------------------------------ AuthStorage
\* "no session": what getSession and removeSession return as undefined.
NoSession == [id |-> Undefined]

AuthenticationSession(id, accessToken, accountId, label, scopes) ==
    [id |-> id, accessToken |-> accessToken,
     account |-> [id |-> accountId, label |-> label], scopes |-> scopes]

\* The sessions of the storage tests.
DEFAULT_SESSION == AuthenticationSession("1", "42", "foo", "bar", <<"baz">>)
Sessions == {DEFAULT_SESSION, [DEFAULT_SESSION EXCEPT !.id = "2"]}

\* What secrets.get(SESSIONS_KEY) returns: nothing (undefined, or the empty
\* text, which getSession treats alike), or a JSON text, held as the array it
\* parses to.
NoSecret == [stored |-> FALSE, json |-> <<>>]
Secret(json) == [stored |-> TRUE, json |-> json]

\* JSON.stringify of a session: an object is the sequence of its key/value
\* pairs.
JsonObject(session) ==
    << <<"id", session.id>>,
       <<"accessToken", session.accessToken>>,
       <<"account", << <<"id", session.account.id>>,
                       <<"label", session.account.label>> >> >>,
       <<"scopes", session.scopes>> >>

\* JSON.stringify([...sessions])
JsonStringify(sessions) == [j \in 1..Len(sessions) |-> JsonObject(sessions[j])]

\* object[key], a record that tells whether the key is there.
RECURSIVE JsonGet(_, _)
JsonGet(object, key) ==
    IF object = <<>> THEN [has |-> FALSE, val |-> <<>>]
    ELSE IF Head(object)[1] = key THEN [has |-> TRUE, val |-> Head(object)[2]]
    ELSE JsonGet(Tail(object), key)

\* AuthenticationSessionsSchema accepts the array: one element, with id,
\* accessToken, account {id, label} and scopes.
SchemaAccepts(json) ==
    /\ Len(json) = 1
    /\ \A key \in {"id", "accessToken", "account", "scopes"} :
            JsonGet(json[1], key).has
    /\ \A key \in {"id", "label"} :
            JsonGet(JsonGet(json[1], "account").val, key).has

\* What the schema returns for an element: the fields it names.
SchemaSession(object) ==
    AuthenticationSession(JsonGet(object, "id").val,
                          JsonGet(object, "accessToken").val,
                          JsonGet(JsonGet(object, "account").val, "id").val,
                          JsonGet(JsonGet(object, "account").val, "label").val,
                          JsonGet(object, "scopes").val)

\* parseAuthenticationSessions(sessionsJson)
ParseAuthenticationSessions(json) ==
    IF SchemaAccepts(json)
    THEN [threw |-> FALSE,
          sessions |-> [j \in 1..Len(json) |-> SchemaSession(json[j])]]
    ELSE [threw |-> TRUE, sessions |-> <<>>]

\* Mutant of GetSession: the schema has no .length(1) and the length is not
\* checked; the first stored session is returned.
GetSession_FirstOfMany(sessionJson) ==
    IF ~sessionJson.stored
    THEN [threw |-> FALSE, value |-> NoSession]
    ELSE IF sessionJson.json = <<>> \/ ~SchemaAccepts(<<sessionJson.json[1]>>)
    THEN [threw |-> TRUE, value |-> NoSession]
    ELSE [threw |-> FALSE, value |-> SchemaSession(sessionJson.json[1])]

\* getSession() once secrets.get has returned sessionJson.
GetSession(sessionJson) ==
    IF ~sessionJson.stored
    THEN [threw |-> FALSE, value |-> NoSession]
    ELSE LET parsed == ParseAuthenticationSessions(sessionJson.json) IN
         IF parsed.threw \/ Len(parsed.sessions) # 1
         THEN [threw |-> TRUE, value |-> NoSession]
         ELSE [threw |-> FALSE, value |-> parsed.sessions[1]]

\* Mutant of StoreSession: the session is added to the stored array.
StoreSession_Appends(secret, session) ==
    IF secret.stored
    THEN Secret(secret.json \o JsonStringify(<<session>>))
    ELSE Secret(JsonStringify(<<session>>))

\* storeSession(session): secrets.store(SESSIONS_KEY, JSON.stringify([session]))
StoreSession(secret, session) == Secret(JsonStringify(<<session>>))

\* removeSession(sessionId) goes on to secrets.delete for the session that
\* getSession returned.
RemovesSession(session, sessionId) ==
    session # NoSession /\ session.id = sessionId

\* ----------------------------------------------------- GoogleAuthProvider
REQUIRED_SCOPES == <<"profile", "email">>

\* The scope strings in use, in the order Array.prototype.sort gives them.
ScopeOrder == <<"drive", "email", "openid", "profile">>

\* Mutant of SortedScopes: the requested scopes are followed by the required
\* ones as they come.
SortedScopes_Concatenated(scopes) == scopes \o REQUIRED_SCOPES

\* Array.from(new Set([...scopes, ...REQUIRED_SCOPES])).sort()
SortedScopes(scopes) ==
    LET scopeSet == Elements(scopes \o REQUIRED_SCOPES)
        InSet(scope) == scope \in scopeSet
    IN SelectSeq(ScopeOrder, InSet)

\* uuid(): the n-th value drawn.
Uuid(n) == "uuid-" \o ToString(n)

\* What the token endpoint and the user-info endpoint answer.
AccessToken == "123"
UserInfo == [name |-> "Foo Bar", email |-> "foo@example.com"]

\* getSessions once storage.getSession() has resolved: session ? [session] : []
GetSessions(session) == IF session = NoSession THEN <<>> ELSE <<session>>

\* The session createSession builds.
NewSession(id, token, user, sortedScopes) ==
    AuthenticationSession(id, token, user.email, user.name, sortedScopes)

\* The events of onDidChangeSessions.
SessionAdded(session) ==
    [added |-> <<session>>, removed |-> <<>>, changed |-> <<>>]
SessionRemoved(session) ==
    [added |-> <<>>, removed |-> <<session>>, changed |-> <<>>]

\* The awaits of createSession, in order: the callback URI, the PKCE codes,
\* the browser, the authorization code, the token, the user info and the
\* storing of the session.
LoginStages ==
    <<"asExternalUri", "generateCodeVerifier", "openExternal", "promisedCode",
      "getToken", "getUserInfo", "storeSession">>

\* The place of a stage among the awaits.
StageIndex(stage) == CHOOSE k \in 1..Len(LoginStages) : LoginStages[k] = stage

\* The message of the error a failing stage raises.
StageError(stage) ==
    CASE stage = "waitForCode" -> "Barf"
      [] stage = "getToken" -> "No access token returned"
      [] stage = "getUserInfo" -> "Failed to fetch user info"
      [] OTHER -> stage \o " rejected"

\* window.showErrorMessage in the catch block of createSession.
SignInFailed(reason) == "Sign in failed: " \o reason
SignedIn == "Signed in to Google!"

\* ------------------------------------------------------ calls in progress
\* The call slots, and the bounds on the calls and on the createSession
\* calls started in a behaviour.
Calls == {1, 2}
MaxOps == 3
MaxLogins == 1

\* A slot: the operation it runs, where it is suspended, its arguments, the
\* secret it read, the session it works on, what it returned or threw, how
\* often it called secrets.delete and the nonce it gave to waitForCode.
NoCall ==
    [op |-> "none", pc |-> "idle", sessionId |-> "",
     scopes |-> <<>>, read |-> NoSecret, session |-> NoSession,
     ret |-> NoSession, list |-> <<>>, error |-> "", deletes |-> 0, nth |-> 0,
     nonce |-> ""]

\* ------------------------------------------- vscode.CancellationTokenSource
NoCts == [created |-> FALSE, cancelled |-> FALSE, disposed |-> FALSE]
NewCts == [NoCts EXCEPT !.created = TRUE]

\* cancel() notifies the token's listeners once, and never after dispose().
CtsFires(c) == c.created /\ ~c.cancelled /\ ~c.disposed
CtsCancel(c) == [c EXCEPT !.cancelled = TRUE]
CtsDispose(c) == [c EXCEPT !.disposed = TRUE]

\* ------------------------------------------------------------- the state
VARIABLES
    now,              \* seconds elapsed
    codeManager,      \* the registry
    pc,               \* per trigger invocation, where it is suspended
    nonceOf,          \* options.nonce of the invocation
    cts,              \* cancelTokenSource of the invocation
    callerCancelled,  \* options.cancel of the invocation has fired
    opened,           \* the authorization URL given to openExternal
    result,           \* how the promise trigger returned settled
    input,            \* the MultiStepInput of the invocation's prompt
    uncaught,         \* an exception escaped handleUri
    wizard,           \* a MultiStepInput run on its own, outside the flow
    uriHandler,       \* the ExtensionUriHandler and the listeners of its event
    secrets,          \* the SecretStorage behind AuthStorage
    authCalls,        \* the calls of AuthStorage and GoogleAuthProvider
    sessionEvents,    \* what onDidChangeSessions has fired, in order
    messages,         \* what the window has shown, in order
    uuids             \* how many uuid() values were drawn

\* The state of the authorization flow.
flowVars == <<now, codeManager, pc, nonceOf, cts, callerCancelled, opened,
              result, input, uncaught>>

\* The state of the session storage and of the authentication provider.
authVars == <<secrets, authCalls, sessionEvents, messages, uuids>>

vars == <<now, codeManager, pc, nonceOf, cts, callerCancelled, opened,
          result, input, uncaught, wizard, uriHandler, authVars>>

NoResult == [kind |-> "pending", code |-> "", redirectUri |-> Uri("", <<>>), error |-> ""]
Fulfilled(code, uri) == [NoResult EXCEPT !.kind = "resolved", !.code = code, !.redirectUri = uri]
Failed(error) == [NoResult EXCEPT !.kind = "rejected", !.error = error]

Init ==
    /\ now = 0
    /\ codeManager = EmptyRegistry
    /\ pc = [i \in Invs |-> "idle"]
    /\ nonceOf = [i \in Invs |-> ""]
    /\ cts = [i \in Invs |-> NoCts]
    /\ callerCancelled = [i \in Invs |-> FALSE]
    /\ opened = [i \in Invs |-> NoUrl]
    /\ result = [i \in Invs |-> NoResult]
    /\ input = [i \in Invs |-> NewMultiStepInput]
    /\ uncaught = FALSE
    /\ wizard = NewMultiStepInput
    /\ uriHandler = NewExtensionUriHandler
    /\ secrets = NoSecret
    /\ authCalls = [c \in Calls |-> NoCall]
    /\ sessionEvents = <<>>
    /\ messages = <<>>
    /\ uuids = 0

\* Mutant of TriggerReturn: the externalized callback URI is returned as the
\* redirect URI.
TriggerReturn_ExternalRedirect(p, url) ==
    IF p.state = "resolved" THEN Fulfilled(p.value, url.state)
    ELSE Failed(p.value)

\* Mutant of TriggerReturn: a rejection of the awaited promise is replaced by
\* an error of trigger's own.
TriggerReturn_WrapsError(p, url) ==
    IF p.state = "resolved" THEN Fulfilled(p.value, PROXIED_REDIRECT_URI)
    ELSE Failed("unexpected")

\* return { code: await code, redirectUri: PROXIED_REDIRECT_URI }, or the
\* rejection of the awaited promise rethrown.
TriggerReturn(p, url) ==
    IF p.state = "resolved" THEN Fulfilled(p.value, PROXIED_REDIRECT_URI)
    ELSE Failed(p.value)

\* Mutant of Resumes: trigger waits for the manual-entry wizard to finish
\* before it looks at the code.
Resumes_AfterPrompt(pcMid, cm, i) ==
    pcMid[i] = "awaiting" /\ Settled(cm.promise[i]) /\ input[i].state # "running"

\* Invocation i is suspended at "await code" and its promise has settled.
Resumes(pcMid, cm, i) == pcMid[i] = "awaiting" /\ Settled(cm.promise[i])

\* Continuations of trigger made runnable by the settling of code promises:
\* the awaiting invocations return or rethrow, and their finally blocks
\* dispose the cancellation sources.
Resume(pcMid, cm, ctsMid) ==
    /\ pc' = [i \in Invs |-> IF Resumes(pcMid, cm, i) THEN "done" ELSE pcMid[i]]
    /\ result' = [i \in Invs |->
                    IF Resumes(pcMid, cm, i)
                    THEN TriggerReturn(cm.promise[i], opened[i])
                    ELSE result[i]]
    /\ cts' = [i \in Invs |->
                    IF Resumes(pcMid, cm, i) THEN CtsDispose(ctsMid[i])
                    ELSE ctsMid[i]]

\* ------------------------------------------------- ProxiedRedirectFlow
\* trigger(options) up to its first await: create the cancellation source,
\* chain it to options.cancel, register with the registry and ask the host
\* for the external form of the callback URI.  A second registration of a
\* nonce fails with DuplicateNonce; the finally block disposes the source.
Trigger(i, n) ==
    /\ pc[i] = "idle"
    /\ \A j \in Invs : j < i => pc[j] # "idle"
    /\ now + EXCHANGE_TIMEOUT <= MaxTime
    /\ nonceOf' = [nonceOf EXCEPT ![i] = n]
    /\ IF IsDuplicateNonce(codeManager, n)
       THEN /\ pc' = [pc EXCEPT ![i] = "done"]
            /\ result' = [result EXCEPT ![i] = Failed("DuplicateNonce")]
            /\ cts' = [cts EXCEPT ![i] = CtsDispose(NewCts)]
            /\ UNCHANGED codeManager
       ELSE /\ pc' = [pc EXCEPT ![i] = "externalizing"]
            /\ codeManager' = WaitForCode(codeManager, i, n, now)
            /\ cts' = [cts EXCEPT ![i] = NewCts]
            /\ UNCHANGED result
    /\ UNCHANGED <<wizard, uriHandler, authVars, now, callerCancelled, opened, input, uncaught>>

\* An awaited host call (asExternalUri, openExternal) rejected: the error
\* leaves trigger through the finally block.
HostCallFails(i, at) ==
    /\ pc[i] = at
    /\ pc' = [pc EXCEPT ![i] = "done"]
    /\ result' = [result EXCEPT ![i] = Failed("unexpected")]
    /\ cts' = [cts EXCEPT ![i] = CtsDispose(@)]
    /\ UNCHANGED <<wizard, uriHandler, authVars, now, codeManager, nonceOf, callerCancelled, opened, input, uncaught>>

\* asExternalUri resolved: build the authorization URL and hand it to
\* openExternal.
AsExternalUriReturns(i, external) ==
    /\ pc[i] = "externalizing"
    /\ external \in ExternalUris(VsCodeRedirectUri(nonceOf[i]))
    /\ opened' = [opened EXCEPT ![i] = GenerateAuthUrl(external)]
    /\ pc' = [pc EXCEPT ![i] = "opening"]
    /\ UNCHANGED <<wizard, uriHandler, authVars, now, codeManager, nonceOf, cts, callerCancelled, result, input, uncaught>>

AsExternalUriFails(i) == HostCallFails(i, "externalizing")

\* openExternal resolved: start the manual-entry wizard, then await the code.
OpenExternalReturns(i) ==
    /\ pc[i] = "opening"
    /\ input' = [input EXCEPT ![i] = Run(PromptStep)]
    /\ Resume([pc EXCEPT ![i] = "awaiting"], codeManager, cts)
    /\ UNCHANGED <<wizard, uriHandler, authVars, now, codeManager, nonceOf, callerCancelled, opened, uncaught>>

OpenExternalFails(i) == HostCallFails(i, "opening")

\* --------------------------------------------------- deep-link delivery
\* The listener on onReceivedUri: both nonce and code present and non-empty,
\* or the event is ignored.
\* Mutant of OnReceivedUri: presence is checked, emptiness is not.
OnReceivedUri_AcceptsEmpty(cm, uri) ==
    LET nonce == QueryGet(uri.query, "nonce")
        code == QueryGet(uri.query, "code")
    IN IF nonce.has /\ code.has
       THEN [cm |-> ResolveCode(cm, nonce.val, code.val), threw |-> FALSE]
       ELSE [cm |-> cm, threw |-> FALSE]

\* It answers the registry it leaves and whether it threw.
LinkNonce(uri) == QueryGet(uri.query, "nonce")
LinkCode(uri) == QueryGet(uri.query, "code")

OnReceivedUri(cm, uri) ==
    IF Present(LinkNonce(uri)) /\ Present(LinkCode(uri))
    THEN [cm |-> ResolveCode(cm, LinkNonce(uri).val, LinkCode(uri).val),
          threw |-> FALSE]
    ELSE [cm |-> cm, threw |-> FALSE]

\* ExtensionUriHandler.handleUri(uri): fire the event to the listener.
HandleUri(uri) ==
    LET fired == OnReceivedUri(codeManager, uri) IN
    /\ codeManager' = fired.cm
    /\ uncaught' = (uncaught \/ fired.threw)
    /\ Resume(pc, codeManager', cts)
    /\ UNCHANGED <<wizard, uriHandler, authVars, now, nonceOf, callerCancelled, opened, input>>

\* --------------------------------------------------- timeout and cancel
ArmedDeadlines == {codeManager.timer[i] : i \in Invs} \ {NoTimer}

Least(S) == CHOOSE x \in S : \A y \in S : x <= y

\* Time passes, up to the next armed deadline: a due timer runs before the
\* clock moves on.
Tick ==
    /\ now < MaxTime
    /\ \A d \in ArmedDeadlines : now < d
    /\ now' = Least({now + TickStep, MaxTime} \cup ArmedDeadlines)
    /\ UNCHANGED <<wizard, uriHandler, authVars, codeManager, pc, nonceOf, cts, callerCancelled, opened, result, input, uncaught>>

\* The timer armed by invocation i's waitForCode runs.
TimerExpires(i) ==
    /\ codeManager.timer[i] # NoTimer
    /\ now >= codeManager.timer[i]
    /\ codeManager' = TimerFires(codeManager, i)
    /\ Resume(pc, codeManager', cts)
    /\ UNCHANGED <<wizard, uriHandler, authVars, now, nonceOf, callerCancelled, opened, input, uncaught>>

\* Mutant of CancelVia: waitForCode was not given the token of the shared
\* source, so cancelling the source does not reach the registry.
CancelVia_Unchained(cm, c, i) == cm

\* cancelTokenSource.cancel() of invocation i, as seen by the registry.
CancelVia(cm, c, i) == IF CtsFires(c) THEN CancelWait(cm, i) ELSE cm

\* options.cancel fires: the callback chained in trigger cancels the source.
CallerCancels(i) ==
    /\ pc[i] # "idle"
    /\ cts[i].created
    /\ ~callerCancelled[i]
    /\ callerCancelled' = [callerCancelled EXCEPT ![i] = TRUE]
    /\ codeManager' = CancelVia(codeManager, cts[i], i)
    /\ Resume(pc, codeManager', [cts EXCEPT ![i] = CtsCancel(@)])
    /\ UNCHANGED <<wizard, uriHandler, authVars, now, nonceOf, opened, input, uncaught>>

\* ----------------------------------------------------------- user events
\* The widget of invocation i's prompt on which the user can act.
Prompting(i, sub) ==
    /\ input[i].current # 0
    /\ input[i].widgets[input[i].current].shown
    /\ sub \in input[i].widgets[input[i].current].subs

\* onDidChangeValue(text): input.validationMessage = opts.validate(text)
UserChangesValue(i, text) ==
    /\ Prompting(i, "change")
    /\ LET k == input[i].current IN
       input' = [input EXCEPT ![i].widgets[k].value = text,
                              ![i].widgets[k].validationMessage = PromptValidate(text)]
    /\ UNCHANGED <<wizard, uriHandler, authVars, now, codeManager, pc, nonceOf, cts, callerCancelled, opened, result, uncaught>>

\* The prompt of invocation i ended with signal (a value or a thrown
\* InputFlowAction): the subscriptions are released, the step function and
\* the loop of step() run to the end.
PromptEnds(m, k, closedBy, threw, err) ==
    LET released == ReleaseSubscriptions([m EXCEPT !.widgets[k].closedBy = closedBy], k)
    IN IF threw THEN StepThrew(released, err) ELSE StepReturned(released)

\* onDidAccept: resolve with the value when validate(value) is falsy; the
\* step then feeds the value to resolveCode and completes the flow.
UserAccepts(i) ==
    /\ Prompting(i, "accept")
    /\ LET k == input[i].current
           value == input[i].widgets[k].value
       IN IF Falsy(PromptValidate(value))
          THEN /\ input' = [input EXCEPT ![i] = PromptEnds(@, k, "accept", FALSE, "")]
               /\ codeManager' = ResolveCode(codeManager, nonceOf[i], value)
               /\ Resume(pc, codeManager', cts)
          ELSE /\ input' = [input EXCEPT ![i].widgets[k].enabled = TRUE,
                                         ![i].widgets[k].busy = FALSE]
               /\ UNCHANGED <<codeManager, pc, cts, result>>
    /\ UNCHANGED <<wizard, uriHandler, authVars, now, nonceOf, callerCancelled, opened, uncaught>>

\* The prompt rejected with e (Back or Cancel): the catch block of the step.
UserRejects(i, closedBy, e) ==
    LET k == input[i].current
        caught == PromptCatch(e)
    IN /\ input' = [input EXCEPT ![i] = PromptEnds(@, k, closedBy, caught.threw, e)]
       /\ IF caught.cancels
          THEN /\ codeManager' = CancelVia(codeManager, cts[i], i)
               /\ Resume(pc, codeManager', [cts EXCEPT ![i] = CtsCancel(@)])
          ELSE UNCHANGED <<codeManager, pc, cts, result>>
       /\ UNCHANGED <<wizard, uriHandler, authVars, now, nonceOf, callerCancelled, opened, uncaught>>

\* onDidHide: reject(InputFlowAction.cancel)
UserHides(i) ==
    /\ Prompting(i, "hide")
    /\ UserRejects(i, "hide", InputFlowCancel)

QuickInputButtons == {"Back", "Other"}

\* onDidTriggerButton(e): reject(InputFlowAction.back) for the Back button
\* only.
UserTriggersButton(i, button) ==
    /\ Prompting(i, "button")
    /\ IF button = "Back"
       THEN UserRejects(i, "back", InputFlowBack)
       ELSE UNCHANGED vars

Next ==
    \/ \E i \in Invs, n \in Nonces : Trigger(i, n)
    \/ \E i \in Invs : \E e \in ExternalUris(VsCodeRedirectUri(nonceOf[i])) :
          AsExternalUriReturns(i, e)
    \/ \E i \in Invs : AsExternalUriFails(i)
    \/ \E i \in Invs : OpenExternalReturns(i)
    \/ \E i \in Invs : OpenExternalFails(i)
    \/ \E uri \in DeepLinks : HandleUri(uri)
    \/ Tick
    \/ \E i \in Invs : TimerExpires(i)
    \/ \E i \in Invs : CallerCancels(i)
    \/ \E i \in Invs, text \in Texts : UserChangesValue(i, text)
    \/ \E i \in Invs : UserAccepts(i)
    \/ \E i \in Invs : UserHides(i)
    \/ \E i \in Invs, b \in QuickInputButtons : UserTriggersButton(i, b)

Spec == Init /\ [][Next]_vars

\* The same program under the scheduling the host guarantees: time passes,
\* a due timer runs, and an awaited host call settles.
FairSpec ==
    /\ Spec
    /\ WF_vars(Tick)
    /\ \A i \in Invs :
          /\ WF_vars(TimerExpires(i))
          /\ WF_vars(AsExternalUriFails(i)
                     \/ \E e \in ExternalUris(VsCodeRedirectUri(nonceOf[i])) :
                           AsExternalUriReturns(i, e))
          /\ WF_vars(OpenExternalReturns(i) \/ OpenExternalFails(i))

\* ------------------------------------------------ a MultiStepInput flow
\* MultiStepInput.run on a chain of at most MaxSteps steps, driven by the
\* user's events on the widget shown; a run invokes at most MaxCalls steps.
MaxSteps == 3
MaxCalls == 6

\* What a step of the chain does: it awaits a picker, a text entry that needs
\* "foo" (empty or already filled in), or shows nothing.
StepBodies ==
    {[kind |-> "quickPick", opts |-> ONLY_FOO],
     [kind |-> "inputBox", opts |-> [ENTER_A_VALUE EXCEPT !.validate = "needFoo"]],
     [kind |-> "inputBox",
      opts |-> [ENTER_A_VALUE EXCEPT !.validate = "needFoo", !.value = "foo"]],
     [kind |-> "none", opts |-> [title |-> Undefined]]}

\* The chains of len steps from the k-th on, the steps named by their place:
\* each step returns the next one, the last returns undefined.
RECURSIVE Chains(_, _)
Chains(k, len) ==
    {InputStep(k, b.kind, b.opts, next) :
        b \in StepBodies,
        next \in (IF k = len THEN {NoStep} ELSE Chains(k + 1, len))}

Flows == UNION {Chains(1, len) : len \in 1..MaxSteps}

\* What the user can type, and what a change of selection can carry.
TypedTexts == {"f", "foo"}
Selections == {<<>>, <<"foo">>}

\* The step being awaited: the top of the stack.
Top(m) == m.steps[Len(m.steps)]

\* The widget of m on which the user can act, with sub still subscribed.
Listening(m, sub) ==
    /\ m.current # 0
    /\ m.widgets[m.current].shown
    /\ sub \in m.widgets[m.current].subs

\* The primitive awaited by the running step rejected with err: its finally
\* block releases the subscriptions, the step lets err through.
PrimitiveRejects(m, closedBy, err) ==
    LET k == m.current IN
    StepThrew(ReleaseSubscriptions([m EXCEPT !.widgets[k].closedBy = closedBy], k),
              err)

\* The primitive resolved with value: the subscriptions are released, the
\* step takes the value and returns its next step, or throws.
PrimitiveResolves(m, closedBy, value, throws) ==
    LET k == m.current
        released ==
            ReleaseSubscriptions([m EXCEPT !.widgets[k].closedBy = closedBy], k)
        got == [released EXCEPT !.received[Len(released.received)] = value]
    IN IF throws THEN StepThrew(got, "boom") ELSE StepChains(got, Top(m).next)

\* The wizard moves to m, within the bound on invocations.
WizardBecomes(m) ==
    /\ Len(m.calls) <= MaxCalls
    /\ wizard' = m
    /\ UNCHANGED <<flowVars, uriHandler, authVars>>

\* MultiStepInput.run(vs, start)
WizardRuns(start) ==
    /\ wizard.state = "none"
    /\ WizardBecomes(Run(start))

\* Mutant of WizardValueChanges: a message is set for an invalid text and
\* never cleared for a valid one.
WizardValueChanges_KeepsMessage(text) ==
    /\ Listening(wizard, "change")
    /\ LET k == wizard.current
           message == Validate(Top(wizard).opts.validate, text)
       IN WizardBecomes([wizard EXCEPT
            !.widgets[k].value = text,
            !.widgets[k].validationMessage =
                IF Falsy(message) THEN @ ELSE message])

\* onDidChangeValue(text): input.validationMessage = opts.validate(text)
WizardValueChanges(text) ==
    /\ Listening(wizard, "change")
    /\ LET k == wizard.current IN
       WizardBecomes([wizard EXCEPT
            !.widgets[k].value = text,
            !.widgets[k].validationMessage =
                Validate(Top(wizard).opts.validate, text)])

\* Mutant of WizardAccepts: the value is resolved without being validated.
WizardAccepts_Unvalidated(throws) ==
    /\ Listening(wizard, "accept")
    /\ LET k == wizard.current
           value == wizard.widgets[k].value
       IN WizardBecomes(PrimitiveResolves(wizard, "accept", value, throws))

\* onDidAccept: resolve(value) when validate(value) is falsy.
WizardAccepts(throws) ==
    /\ Listening(wizard, "accept")
    /\ LET k == wizard.current
           value == wizard.widgets[k].value
       IN IF Falsy(Validate(Top(wizard).opts.validate, value))
          THEN WizardBecomes(PrimitiveResolves(wizard, "accept", value, throws))
          ELSE WizardBecomes([wizard EXCEPT !.widgets[k].enabled = TRUE,
                                            !.widgets[k].busy = FALSE])

\* onDidChangeSelection(selectedItems): resolve(selectedItems[0])
WizardSelects(selectedItems, throws) ==
    /\ Listening(wizard, "selection")
    /\ WizardBecomes(PrimitiveResolves(wizard, "selection",
            IF selectedItems = <<>> THEN Undefined ELSE Head(selectedItems),
            throws))

\* Mutant of WizardHides: hiding resolves the primitive with undefined.
WizardHides_Resolves ==
    /\ Listening(wizard, "hide")
    /\ WizardBecomes(PrimitiveResolves(wizard, "hide", Undefined, FALSE))

\* onDidHide: reject(InputFlowAction.cancel)
WizardHides ==
    /\ Listening(wizard, "hide")
    /\ WizardBecomes(PrimitiveRejects(wizard, "hide", InputFlowCancel))

\* Mutant of WizardButton: the Back button rejects with the cancel signal.
WizardButton_RejectsCancel(button) ==
    /\ Listening(wizard, "button")
    /\ IF button = "Back"
       THEN WizardBecomes(PrimitiveRejects(wizard, "back", InputFlowCancel))
       ELSE UNCHANGED vars

\* Mutant of WizardButton: the handler does not look at the button, any
\* button rejects with Back.
WizardButton_AnyButtonRejects(button) ==
    /\ Listening(wizard, "button")
    /\ WizardBecomes(PrimitiveRejects(wizard, "back", InputFlowBack))

\* onDidTriggerButton(e): reject(InputFlowAction.back) for the Back button.
WizardButton(button) ==
    /\ Listening(wizard, "button")
    /\ IF button = "Back"
       THEN WizardBecomes(PrimitiveRejects(wizard, "back", InputFlowBack))
       ELSE UNCHANGED vars

\* How a step that shows nothing can end: it returns its next step or throws
\* Back, Cancel or an error of its own.
StubOutcomes == {"returns", InputFlowBack, InputFlowCancel, "boom"}

WizardStubSettles(outcome) ==
    /\ wizard.state = "running"
    /\ Top(wizard).kind = "none"
    /\ WizardBecomes(IF outcome = "returns"
                     THEN StepChains(wizard, Top(wizard).next)
                     ELSE StepThrew(wizard, outcome))

NextSteps ==
    \/ \E start \in Flows : WizardRuns(start)
    \/ \E text \in TypedTexts : WizardValueChanges(text)
    \/ \E throws \in BOOLEAN : WizardAccepts(throws)
    \/ \E sel \in Selections, throws \in BOOLEAN : WizardSelects(sel, throws)
    \/ WizardHides
    \/ \E b \in QuickInputButtons : WizardButton(b)
    \/ \E o \in StubOutcomes : WizardStubSettles(o)

SpecSteps == Init /\ [][NextSteps]_vars

\* --------------------------------------------- the URI handler on its own
\* The handler with listeners that come and go; at most MaxHandled URIs are
\* handled in a behaviour.
MaxHandled == 2

UriHandlerBecomes(h) ==
    /\ uriHandler' = h
    /\ UNCHANGED <<flowVars, wizard, authVars>>

\* handler.onReceivedUri(l)
ListenerSubscribes(l) ==
    /\ l \notin uriHandler.listeners
    /\ UriHandlerBecomes(SubscribeListener(uriHandler, l))

\* The subscription of l is disposed.
ListenerUnsubscribes(l) ==
    /\ l \in uriHandler.listeners
    /\ UriHandlerBecomes(UnsubscribeListener(uriHandler, l))

\* The host hands a URI to handleUri.
HandlerHandles(uri) ==
    /\ Len(uriHandler.handled) < MaxHandled
    /\ UriHandlerBecomes(HandlerHandleUri(uriHandler, uri))

\* handler.dispose()
HandlerDisposed ==
    /\ ~uriHandler.disposed
    /\ UriHandlerBecomes(DisposeHandler(uriHandler))

NextUri ==
    \/ \E l \in Listeners : ListenerSubscribes(l)
    \/ \E l \in Listeners : ListenerUnsubscribes(l)
    \/ \E uri \in DeepLinks : HandlerHandles(uri)
    \/ HandlerDisposed

SpecUri == Init /\ [][NextUri]_vars

\* ------------------------------------- the session storage and the provider
\* Calls of AuthStorage and of GoogleAuthProvider on one SecretStorage.  A
\* call of the host (secrets.get, store, delete) takes effect when it is
\* made and settles in a later task, so calls in progress interleave at
\* their awaits.
Started ==
    LET used == {authCalls[c].nth : c \in Calls} IN
    CHOOSE n \in used : \A m \in used : m <= n

\* Slot c is the one the next call takes: the first that runs nothing.
Free(c) ==
    /\ Started < MaxOps
    /\ authCalls[c].pc \in {"idle", "done"}
    /\ \A b \in Calls : b < c => authCalls[b].pc \notin {"idle", "done"}

\* The createSession calls started: those in progress, those that failed
\* and those that fired their event.
Logins ==
    Cardinality({c \in Calls : /\ authCalls[c].op = "createSession"
                               /\ authCalls[c].pc # "done"})
    + Cardinality({k \in 1..Len(messages) : messages[k] # SignedIn})
    + Cardinality({k \in 1..Len(sessionEvents) : sessionEvents[k].added # <<>>})

\* A call of op starts in a slot.
NewCall(op) == [NoCall EXCEPT !.op = op, !.nth = Started + 1]

\* The call settles: it returned session, or threw error.
Returned(call, session) ==
    [call EXCEPT !.pc = "done", !.ret = session, !.read = NoSecret]
Threw(call, error) ==
    [call EXCEPT !.pc = "done", !.error = error, !.read = NoSecret]

\* authStorage.getSession(): secrets.get(SESSIONS_KEY) is awaited.
CallGetSession(c) ==
    /\ Free(c)
    /\ authCalls' = [authCalls EXCEPT
            ![c] = [NewCall("getSession") EXCEPT !.pc = "get", !.read = secrets]]
    /\ UNCHANGED <<flowVars, wizard, uriHandler, secrets, sessionEvents,
                   messages, uuids>>

\* secrets.get settled: getSession parses and returns, or throws.
GetSessionReturns(c) ==
    /\ authCalls[c].op = "getSession"
    /\ authCalls[c].pc = "get"
    /\ LET got == GetSession(authCalls[c].read) IN
       authCalls' = [authCalls EXCEPT
            ![c] = IF got.threw THEN Threw(@, "Unexpected sessions")
                   ELSE Returned(@, got.value)]
    /\ UNCHANGED <<flowVars, wizard, uriHandler, secrets, sessionEvents,
                   messages, uuids>>

\* authStorage.storeSession(session): secrets.store is called and awaited.
CallStoreSession(c, session) ==
    /\ Free(c)
    /\ secrets' = StoreSession(secrets, session)
    /\ authCalls' = [authCalls EXCEPT
            ![c] = [NewCall("storeSession") EXCEPT
                        !.pc = "store", !.session = session]]
    /\ UNCHANGED <<flowVars, wizard, uriHandler, sessionEvents, messages, uuids>>

\* secrets.store settled: storeSession returns.
StoreSessionReturns(c) ==
    /\ authCalls[c].op = "storeSession"
    /\ authCalls[c].pc = "store"
    /\ authCalls' = [authCalls EXCEPT ![c] = Returned(@, NoSession)]
    /\ UNCHANGED <<flowVars, wizard, uriHandler, secrets, sessionEvents,
                   messages, uuids>>

\* provider.removeSession(sessionId) awaits storage.removeSession(sessionId),
\* which awaits getSession() first.
CallRemoveSession(c, sessionId) ==
    /\ Free(c)
    /\ authCalls' = [authCalls EXCEPT
            ![c] = [NewCall("removeSession") EXCEPT
                        !.sessionId = sessionId,
                        !.pc = "get", !.read = secrets]]
    /\ UNCHANGED <<flowVars, wizard, uriHandler, secrets, sessionEvents,
                   messages, uuids>>

\* getSession settled inside removeSession: without a session of that id
\* undefined is returned, otherwise secrets.delete is called and awaited.
RemoveSessionReads(c) ==
    /\ authCalls[c].op = "removeSession"
    /\ authCalls[c].pc = "get"
    /\ LET got == GetSession(authCalls[c].read) IN
       IF got.threw
       THEN /\ authCalls' = [authCalls EXCEPT ![c] = Threw(@, "Unexpected sessions")]
            /\ UNCHANGED secrets
       ELSE IF RemovesSession(got.value, authCalls[c].sessionId)
       THEN /\ secrets' = NoSecret
            /\ authCalls' = [authCalls EXCEPT
                    ![c] = [@ EXCEPT !.pc = "delete", !.session = got.value,
                                     !.deletes = @ + 1]]
       ELSE /\ authCalls' = [authCalls EXCEPT ![c] = Returned(@, NoSession)]
            /\ UNCHANGED secrets
    /\ UNCHANGED <<flowVars, wizard, uriHandler, sessionEvents, messages, uuids>>

\* secrets.delete settled: the storage returns the session and the provider
\* fires the removal.
RemoveSessionReturns(c) ==
    /\ authCalls[c].op = "removeSession"
    /\ authCalls[c].pc = "delete"
    /\ authCalls' = [authCalls EXCEPT ![c] = Returned(@, @.session)]
    /\ sessionEvents' = Append(sessionEvents, SessionRemoved(authCalls[c].session))
    /\ UNCHANGED <<flowVars, wizard, uriHandler, secrets, messages, uuids>>

\* Mutant of LoginRegisters: waitForCode is not called at the head of login
\* but only where the code is awaited, after openExternal.
LoginRegisters_WhenAwaited(call, nonce) == call

\* login: nonce = uuid(); promisedCode = codeProvider.waitForCode(nonce, cancel)
LoginRegisters(call, nonce) == [call EXCEPT !.nonce = nonce]

\* Mutant of CreateSessionCatches: the error is shown and not rethrown.
CreateSessionCatches_NoRethrow(c, call, reason) ==
    /\ authCalls' = [authCalls EXCEPT ![c] = Returned(call, NoSession)]
    /\ messages' = Append(messages, SignInFailed(reason))
    /\ UNCHANGED <<flowVars, wizard, uriHandler, secrets, sessionEvents>>

\* The catch block of createSession: the error is shown and rethrown.
CreateSessionCatches(c, call, reason) ==
    /\ authCalls' = [authCalls EXCEPT ![c] = Threw(call, reason)]
    /\ messages' = Append(messages, SignInFailed(reason))
    /\ UNCHANGED <<flowVars, wizard, uriHandler, secrets, sessionEvents>>

\* createSession(scopes) up to its first await: the scopes are sorted, the
\* nonce is drawn and waitForCode is called, which may throw; the callback
\* URI is asked for.
CallCreateSession(c, scopes, throws) ==
    /\ Free(c)
    /\ Logins < MaxLogins
    /\ uuids' = uuids + 1
    /\ LET call == [NewCall("createSession") EXCEPT
                        !.scopes = SortedScopes(scopes)]
       IN IF throws
          THEN CreateSessionCatches(c, call, StageError("waitForCode"))
          ELSE /\ authCalls' = [authCalls EXCEPT
                        ![c] = [LoginRegisters(call, Uuid(uuids + 1)) EXCEPT
                                    !.pc = LoginStages[1]]]
               /\ UNCHANGED <<flowVars, wizard, uriHandler, secrets,
                              sessionEvents, messages>>

\* The awaited call of createSession settled well: the next one is made.
\* With the token the window says "Signed in"; with the user info the
\* session is built and secrets.store is called; when that has settled the
\* event is fired and the session returned.
CreateSessionAdvances(c) ==
    LET call == authCalls[c]
        stage == call.pc
    IN
    /\ call.op = "createSession"
    /\ stage \in Elements(LoginStages)
    /\ CASE stage = "getToken" ->
              /\ authCalls' = [authCalls EXCEPT ![c].pc = "getUserInfo"]
              /\ messages' = Append(messages, SignedIn)
              /\ UNCHANGED <<secrets, sessionEvents, uuids>>
         [] stage = "getUserInfo" ->
              LET session == NewSession(Uuid(uuids + 1), AccessToken, UserInfo,
                                        call.scopes)
              IN /\ uuids' = uuids + 1
                 /\ secrets' = StoreSession(secrets, session)
                 /\ authCalls' = [authCalls EXCEPT
                        ![c] = [@ EXCEPT !.pc = "storeSession",
                                         !.session = session]]
                 /\ UNCHANGED <<sessionEvents, messages>>
         [] stage = "storeSession" ->
              /\ authCalls' = [authCalls EXCEPT ![c] = Returned(@, @.session)]
              /\ sessionEvents' = Append(sessionEvents, SessionAdded(call.session))
              /\ UNCHANGED <<secrets, messages, uuids>>
         [] OTHER ->
              /\ authCalls' = [authCalls EXCEPT
                    ![c].pc = LoginStages[StageIndex(stage) + 1]]
              /\ UNCHANGED <<secrets, sessionEvents, messages, uuids>>
    /\ UNCHANGED <<flowVars, wizard, uriHandler>>

\* The awaited call of createSession failed, at any await before the
\* storing: the catch block runs.
CreateSessionFails(c) ==
    /\ authCalls[c].op = "createSession"
    /\ authCalls[c].pc \in Elements(LoginStages) \ {"storeSession"}
    /\ CreateSessionCatches(c, authCalls[c], StageError(authCalls[c].pc))
    /\ UNCHANGED uuids

\* What the provider is asked for.
RequestedScopes == {<<"profile", "email">>, <<"openid", "drive", "openid">>}

\* The ids removeSession is called with: the one of the tests and the one
\* of the session in store.
SessionIds ==
    ({DEFAULT_SESSION.id} \cup {GetSession(secrets).value.id}) \ {Undefined}

NextAuth ==
    \/ \E c \in Calls : CallGetSession(c)
    \/ \E c \in Calls : GetSessionReturns(c)
    \/ \E c \in Calls, session \in Sessions : CallStoreSession(c, session)
    \/ \E c \in Calls : StoreSessionReturns(c)
    \/ \E c \in Calls, id \in SessionIds : CallRemoveSession(c, id)
    \/ \E c \in Calls : RemoveSessionReads(c)
    \/ \E c \in Calls : RemoveSessionReturns(c)
    \/ \E c \in Calls, scopes \in RequestedScopes, throws \in BOOLEAN :
            CallCreateSession(c, scopes, throws)
    \/ \E c \in Calls : CreateSessionAdvances(c)
    \/ \E c \in Calls : CreateSessionFails(c)

SpecAuth == Init /\ [][NextAuth]_vars

\* ------------------------------------------------------------ SpecStored
\* AuthStorage and getSessions over a secret store that others write too.
\* A stored session whose account lacks its label.
MALFORMED_SESSION ==
    << <<"id", "1">>, <<"accessToken", "42">>,
       <<"account", << <<"id", "foo">> >> >>, <<"scopes", <<"baz">> >> >>

\* What the store can hold under SESSIONS_KEY: nothing, "[]", one session,
\* two sessions, one element that is not a session.
StoredTexts ==
    {NoSecret, Secret(<<>>), Secret(<<MALFORMED_SESSION>>),
     Secret(JsonStringify(<<DEFAULT_SESSION, [DEFAULT_SESSION EXCEPT !.id = "2"]>>))}
    \cup {Secret(JsonStringify(<<s>>)) : s \in Sessions}

\* secrets.store(SESSIONS_KEY, text) by someone other than AuthStorage.
SecretsHold(text) ==
    /\ secrets # text
    /\ secrets' = text
    /\ UNCHANGED <<flowVars, wizard, uriHandler, authCalls, sessionEvents,
                   messages, uuids>>

\* provider.getSessions(scopes, options): storage.getSession() is awaited.
CallGetSessions(c) ==
    /\ Free(c)
    /\ authCalls' = [authCalls EXCEPT
            ![c] = [NewCall("getSessions") EXCEPT !.pc = "get", !.read = secrets]]
    /\ UNCHANGED <<flowVars, wizard, uriHandler, secrets, sessionEvents,
                   messages, uuids>>

\* storage.getSession() settled: getSessions returns its list, or throws
\* what getSession threw.
GetSessionsReturns(c) ==
    /\ authCalls[c].op = "getSessions"
    /\ authCalls[c].pc = "get"
    /\ LET got == GetSession(authCalls[c].read) IN
       authCalls' = [authCalls EXCEPT
            ![c] = IF got.threw THEN Threw(@, "Unexpected sessions")
                   ELSE [Returned(@, NoSession) EXCEPT
                            !.list = GetSessions(got.value)]]
    /\ UNCHANGED <<flowVars, wizard, uriHandler, secrets, sessionEvents,
                   messages, uuids>>

NextStored ==
    \/ \E text \in StoredTexts : SecretsHold(text)
    \/ \E c \in Calls : CallGetSession(c)
    \/ \E c \in Calls : GetSessionReturns(c)
    \/ \E c \in Calls : CallGetSessions(c)
    \/ \E c \in Calls : GetSessionsReturns(c)
    \/ \E c \in Calls, s \in Sessions : CallStoreSession(c, s)
    \/ \E c \in Calls : StoreSessionReturns(c)

SpecStored == Init /\ [][NextStored]_vars

\* ------------------------------------------------------------ SpecLogins
\* The two logins side by side: one trigger of the proxied flow with its
\* deep links, clock, cancellation and prompt, and createSession of the
\* provider for the required scopes, one call at a time.
NextLogins ==
    \/ \E n \in Nonces : Trigger(1, n)
    \/ \E e \in ExternalUris(VsCodeRedirectUri(nonceOf[1])) : AsExternalUriReturns(1, e)
    \/ AsExternalUriFails(1)
    \/ OpenExternalReturns(1)
    \/ OpenExternalFails(1)
    \/ \E uri \in DeepLinks : HandleUri(uri)
    \/ Tick
    \/ TimerExpires(1)
    \/ CallerCancels(1)
    \/ \E text \in Texts : UserChangesValue(1, text)
    \/ UserAccepts(1)
    \/ UserHides(1)
    \/ \E b \in QuickInputButtons : UserTriggersButton(1, b)
    \/ \E throws \in BOOLEAN : CallCreateSession(1, REQUIRED_SCOPES, throws)
    \/ CreateSessionAdvances(1)
    \/ CreateSessionFails(1)

SpecLogins == Init /\ [][NextLogins]_vars

\* ================================================================ claims
\* The user event that ended the prompt of invocation i ("" while none did).
ClosedBy(i) ==
    IF Len(input[i].widgets) = 0 THEN "" ELSE input[i].widgets[1].closedBy

\* Some widget of invocation i's wizard is on screen.
WidgetShown(i) == \E k \in 1..Len(input[i].widgets) : input[i].widgets[k].shown

\* The request of invocation i is pending in the registry.
Waiting(i) == nonceOf[i] \in Nonces /\ codeManager.inFlight[nonceOf[i]] = i

\* The deep links that carry a nonce and a code, both non-empty, and the
\* others.
MatchingLinks ==
    {uri \in DeepLinks : Present(LinkNonce(uri)) /\ Present(LinkCode(uri))}
MalformedLinks == DeepLinks \ MatchingLinks

Rejection(error) == [NoPromise EXCEPT !.state = "rejected", !.value = error]
Resolution(code) == [NoPromise EXCEPT !.state = "resolved", !.value = code]

\* C1: in every interleaving of deep links, manual entry, cancellation and
\* timeout, the registry settles the promise of a request at most once; once
\* the promise or the promise of trigger has settled it never changes, and
\* no delivery raises: handleUri lets no exception escape and the wizard
\* rejects for Back only.
C1_SettlesAtMostOnce ==
    [][\A i \in Invs :
          /\ codeManager'.settles[i] <= 1
          /\ Settled(codeManager.promise[i])
                => codeManager'.promise[i] = codeManager.promise[i]
          /\ result[i].kind # "pending" => result'[i] = result[i]
          /\ ~uncaught'
          /\ input'[i].state = "rejected" => input'[i].error = InputFlowBack]_vars

\* A code pasted and accepted after a deep link had settled the request.
C1_Witness ==
    \E i \in Invs :
        /\ codeManager.promise[i] = Resolution("42")
        /\ codeManager.settles[i] = 1
        /\ ClosedBy(i) = "accept"
        /\ input[i].state = "fulfilled"
        /\ result[i] = Fulfilled("42", PROXIED_REDIRECT_URI)

\* C2: a deep link carrying the nonce of a pending request and a non-empty
\* code resolves the request with that code, and trigger resolves with
\* {code, PROXIED_REDIRECT_URI}: at once when it awaits the code, and as soon
\* as openExternal has returned when the link arrived earlier.
C2_DeepLinkResolves ==
    [][/\ \A uri \in MatchingLinks, i \in Invs :
            (/\ LinkNonce(uri).val \in Nonces
             /\ codeManager.inFlight[LinkNonce(uri).val] = i
             /\ HandleUri(uri))
            => /\ codeManager'.promise[i] = Resolution(LinkCode(uri).val)
               /\ pc[i] = "awaiting"
                     => /\ pc'[i] = "done"
                        /\ result'[i] = Fulfilled(LinkCode(uri).val,
                                                  PROXIED_REDIRECT_URI)
       /\ \A i \in Invs :
            (/\ pc[i] = "opening"
             /\ codeManager.promise[i].state = "resolved"
             /\ OpenExternalReturns(i))
               => result'[i] = Fulfilled(codeManager.promise[i].value,
                                         PROXIED_REDIRECT_URI)]_vars

\* trigger resolved with the code of a deep link.
C2_Witness ==
    \E i \in Invs :
        /\ result[i] = Fulfilled("42", PROXIED_REDIRECT_URI)
        /\ pc[i] = "done"

\* C3: accepting a non-empty code in the prompt while the request is pending
\* feeds it to resolveCode and trigger resolves with that code and
\* PROXIED_REDIRECT_URI, which is not the externalized callback URI.
C3_ManualEntryResolves ==
    [][\A i \in Invs :
          (/\ Prompting(i, "accept")
           /\ ~IsEmpty(input[i].widgets[input[i].current].value)
           /\ Waiting(i)
           /\ UserAccepts(i))
          => LET value == input[i].widgets[input[i].current].value IN
             /\ codeManager'.promise[i] = Resolution(value)
             /\ result'[i] = Fulfilled(value, PROXIED_REDIRECT_URI)
             /\ result'[i].redirectUri # opened[i].state]_vars

\* trigger resolved with the pasted code.
C3_Witness ==
    \E i \in Invs :
        /\ result[i] = Fulfilled("7", PROXIED_REDIRECT_URI)
        /\ ClosedBy(i) = "accept"

\* C4: hiding the prompt while the request is pending cancels the shared
\* cancellation source, removes the request from the registry and rejects
\* trigger with the cancelled error.
C4_DismissCancels ==
    [][\A i \in Invs :
          (Prompting(i, "hide") /\ Waiting(i) /\ UserHides(i))
          => /\ cts'[i].cancelled
             /\ ~HasPending(codeManager', nonceOf[i])
             /\ codeManager'.promise[i] = Rejection("cancelled")
             /\ result'[i] = Failed("cancelled")]_vars

\* trigger rejected because the user hid the prompt.
C4_Witness ==
    \E i \in Invs :
        /\ ClosedBy(i) = "hide"
        /\ ~callerCancelled[i]
        /\ result[i] = Failed("cancelled")

\* C5: when options.cancel fires while trigger awaits the code, the request
\* is rejected, trigger rejects with the cancelled error and no widget of the
\* manual-entry wizard remains shown.
C5_CallerCancelDismisses ==
    [][\A i \in Invs :
          (pc[i] = "awaiting" /\ CallerCancels(i))
          => /\ codeManager'.promise[i] = Rejection("cancelled")
             /\ result'[i] = Failed("cancelled")
             /\ ~WidgetShown(i)']_vars

\* C6: once trigger has settled, on whatever path, no widget of its
\* manual-entry wizard is shown.
C6_PromptDisposedOnExit ==
    \A i \in Invs : pc[i] = "done" => ~WidgetShown(i)

\* C7: once trigger has settled, on whatever path, the registry holds no
\* pending request and no armed timer of that invocation.
C7_NoLeakedPending ==
    \A i \in Invs :
        pc[i] = "done" => ~Waiting(i) /\ codeManager.timer[i] = NoTimer

\* C8: a request registered at T0 has its timer armed for T0 + 60 s; it is
\* never pending after that time, it is rejected with the timeout error at
\* that time exactly, and a trigger awaiting it then rejects with that error.
C8_TimesOutAtCeiling ==
    [][\A i \in Invs :
          /\ codeManager'.promise[i].state = "pending"
                => /\ codeManager'.timer[i]
                        = codeManager'.promise[i].regAt + EXCHANGE_TIMEOUT
                   /\ now' <= codeManager'.promise[i].regAt + EXCHANGE_TIMEOUT
          /\ (/\ codeManager.promise[i].state = "pending"
              /\ codeManager'.promise[i] = Rejection("timeout"))
                => /\ now = codeManager.promise[i].regAt + EXCHANGE_TIMEOUT
                   /\ ~HasPending(codeManager', nonceOf[i])
                   /\ pc[i] = "awaiting" => result'[i] = Failed("timeout")]_vars

\* trigger rejected with the timeout error, 60 s after a registration at a
\* time other than 0.
C8_Witness ==
    \E i \in Invs :
        /\ result[i] = Failed("timeout")
        /\ codeManager.promise[i] = Rejection("timeout")
        /\ now = TickStep + EXCHANGE_TIMEOUT

C10_MalformedLinkIgnored ==
    [][\/ /\ codeManager' = codeManager
          /\ result' = result
          /\ pc' = pc
          /\ ~uncaught'
       \/ \A uri \in MalformedLinks : ~HandleUri(uri)]_vars

\* Two requests with different nonces are pending, both triggers awaiting.
C10_Witness ==
    /\ \A i \in Invs : pc[i] = "awaiting" /\ Waiting(i)
    /\ nonceOf[1] # nonceOf[2]
    /\ ~uncaught

\* The invocations whose request for nonce n is pending.
PendingFor(n) ==
    {i \in Invs : nonceOf[i] = n /\ codeManager.promise[i].state = "pending"}

\* C11: at most one request is pending per nonce at any time, and it is the
\* one the table holds; a trigger whose nonce already has a pending request
\* fails with DuplicateNonce and changes nothing in the registry nor in the
\* outcome of the other invocation.
C11_OnePendingPerNonce ==
    [][/\ \A n \in Nonces :
            /\ Cardinality(PendingFor(n))' <= 1
            /\ \A i \in PendingFor(n)' : codeManager'.inFlight[n] = i
       /\ \A i \in Invs, n \in Nonces :
            (HasPending(codeManager, n) /\ Trigger(i, n))
            => /\ result'[i] = Failed("DuplicateNonce")
               /\ codeManager' = codeManager
               /\ \A j \in Invs \ {i} : result'[j] = result[j] /\ pc'[j] = pc[j]]_vars

\* The second trigger failed on the nonce of the first, whose request then
\* received its code.
C11_Witness ==
    /\ nonceOf[1] = nonceOf[2]
    /\ result[2] = Failed("DuplicateNonce")
    /\ result[1] = Fulfilled("42", PROXIED_REDIRECT_URI)
    /\ codeManager.promise[2] = NoPromise

\* The states of one invocation, in their order.
Rank(at) ==
    CASE at = "idle" -> 0
      [] at = "externalizing" -> 1
      [] at = "opening" -> 2
      [] at = "awaiting" -> 3
      [] at = "done" -> 4

\* The terminal state an invocation reached ("" while it runs).
Outcome(r) ==
    IF r.kind = "pending" THEN ""
    ELSE IF r.kind = "resolved" THEN "Resolved"
    ELSE IF r.error = "cancelled" THEN "Cancelled"
    ELSE IF r.error = "timeout" THEN "TimedOut"
    ELSE r.error

\* The step ends invocation i before it awaits the code: its registration
\* failed or a host call rejected.
EndsEarly(i) ==
    \/ \E n \in Nonces : Trigger(i, n)
    \/ AsExternalUriFails(i)
    \/ OpenExternalFails(i)

\* C12 as stated: every invocation that ended is Resolved, Cancelled or
\* TimedOut.
C12_ThreeTerminalStates ==
    \A i \in Invs :
        pc[i] = "done" => Outcome(result[i]) \in {"Resolved", "Cancelled", "TimedOut"}

\* C12, amended: an invocation moves forward only (it registers, builds,
\* opens the browser and starts the wizard once, and never starts over);
\* when its registration succeeded and its host calls resolved it ends in
\* exactly one of Resolved, Cancelled, TimedOut, the one its request settled
\* with, after the URL was opened and the wizard started; it otherwise ends
\* with DuplicateNonce or with the host call's error; once ended, its outcome
\* never changes; and every started invocation ends.
C12_StateMachine ==
    /\ [][\A i \in Invs :
             /\ Rank(pc'[i]) >= Rank(pc[i])
             /\ pc[i] = "done"
                   => /\ result'[i] = result[i]
                      /\ opened'[i] = opened[i]
                      /\ Len(input'[i].widgets) = Len(input[i].widgets)
             /\ pc'[i] # "done" => Outcome(result'[i]) = ""
             /\ (pc[i] # "done" /\ pc'[i] = "done")
                   => IF EndsEarly(i)
                      THEN Outcome(result'[i]) \in {"DuplicateNonce", "unexpected"}
                      ELSE /\ Outcome(result'[i]) \in {"Resolved", "Cancelled", "TimedOut"}
                           /\ (Outcome(result'[i]) = "Resolved")
                                 = (codeManager'.promise[i].state = "resolved")
                           /\ codeManager'.promise[i].state = "rejected"
                                 => result'[i].error = codeManager'.promise[i].value
                           /\ opened'[i] # NoUrl
                           /\ input'[i].state # "none"]_vars
    /\ \A i \in Invs : (pc[i] # "idle") ~> (pc[i] = "done")

\* One invocation timed out and the other was cancelled.
C12_Witness ==
    /\ pc[1] = "done" /\ Outcome(result[1]) = "TimedOut"
    /\ pc[2] = "done" /\ Outcome(result[2]) = "Cancelled"
    /\ nonceOf[1] # nonceOf[2]

\* The running step of the wizard raises Back: the Back button of its widget,
\* or a step that shows nothing throwing it.
RaisesBack == WizardButton("Back") \/ WizardStubSettles(InputFlowBack)

\* C13: when a step that is not the first raises Back, the step before it in
\* the chain is the next one invoked, it is on top of the stack the step
\* that raised Back has left, and the run goes on; the order of invocation
\* always starts with the first step and moves one step forward or one step
\* back at a time.
C13_BackReinvokesPrevious ==
    [][/\ (Len(wizard.steps) > 1 /\ RaisesBack)
            => LET previous == wizard.steps[Len(wizard.steps) - 1] IN
               /\ previous.next = Top(wizard)
               /\ wizard'.calls = Append(wizard.calls, previous.id)
               /\ wizard'.steps = SubSeq(wizard.steps, 1, Len(wizard.steps) - 1)
               /\ Top(wizard') = previous
               /\ wizard'.state = "running"
       /\ \A k \in 1..Len(wizard'.calls) :
            IF k = 1 THEN wizard'.calls[k] = 1
            ELSE wizard'.calls[k] - wizard'.calls[k - 1] \in {1, -1}]_vars

\* A run of three steps invoked in the order [1, 2, 3, 2, 3] has completed.
C13_Witness ==
    /\ wizard.calls = <<1, 2, 3, 2, 3>>
    /\ wizard.state = "fulfilled"

\* run has settled.
RunSettled(m) == m.state \in {"fulfilled", "rejected"}

\* C14: when Back is raised while the stack holds one step, that step is the
\* first of the chain, run rejects with Back and no step is invoked, then or
\* later; the stack holds one step whenever the first step runs, also after
\* the flow came back to it.
C14_BackOutOfFirstStep ==
    [][/\ (Len(wizard.steps) = 1 /\ RaisesBack)
            => /\ Top(wizard).id = 1
               /\ wizard'.state = "rejected"
               /\ wizard'.error = InputFlowBack
               /\ wizard'.calls = wizard.calls
       /\ (wizard.state = "running" /\ wizard.calls[Len(wizard.calls)] = 1)
            => Len(wizard.steps) = 1
       /\ RunSettled(wizard) => wizard'.calls = wizard.calls]_vars

\* Back out of the first step after the flow had come back to it from the
\* second.
C14_Witness ==
    /\ wizard.calls = <<1, 2, 1>>
    /\ wizard.state = "rejected"
    /\ wizard.error = InputFlowBack

\* The running step of the wizard raises Cancel: its widget is hidden, or a
\* step that shows nothing throws it.
RaisesCancel == WizardHides \/ WizardStubSettles(InputFlowCancel)

\* C15: when the running step raises Cancel, whichever step it is, run
\* fulfils and no step is invoked, then or later: a settled run does nothing
\* more.
C15_CancelHaltsRun ==
    [][/\ (wizard.state = "running" /\ RaisesCancel)
            => /\ wizard'.state = "fulfilled"
               /\ wizard'.error = ""
               /\ wizard'.calls = wizard.calls
               /\ wizard'.steps = wizard.steps
       /\ RunSettled(wizard) => wizard' = wizard]_vars

\* The second of three steps was cancelled by hiding its widget.
C15_Witness ==
    /\ wizard.state = "fulfilled"
    /\ wizard.calls = <<1, 2>>
    /\ Top(wizard).next # NoStep
    /\ wizard.current # 0
    /\ wizard.widgets[wizard.current].closedBy = "hide"

\* C16: no widget of a run is disposed twice, and once run has settled, for
\* whatever reason, every widget it showed has been disposed once and is off
\* the screen, the one current at the end included.
C16_WidgetsDisposedOnce ==
    \A k \in 1..Len(wizard.widgets) :
        /\ wizard.widgets[k].disposed <= 1
        /\ RunSettled(wizard)
              => /\ wizard.widgets[k].disposed = 1
                 /\ ~wizard.widgets[k].shown
                 /\ wizard.current = Len(wizard.widgets)

\* A run that showed three widgets ended by an error thrown in a step.
C16_Witness ==
    /\ wizard.state = "rejected"
    /\ wizard.error = "boom"
    /\ Len(wizard.widgets) = 3
    /\ \A k \in 1..3 : wizard.widgets[k].disposed = 1

\* The widgets of m that are on screen and not disposed.
OnScreen(m) ==
    {k \in 1..Len(m.widgets) : m.widgets[k].shown /\ m.widgets[k].disposed = 0}

\* C17: at every point of a run at most one widget of the controller is on
\* screen and not disposed, and it is the current one; when a primitive shows
\* a new widget, the widget that was current has been disposed and the new
\* one is the current one.
C17_ExclusiveWidget ==
    [][/\ Cardinality(OnScreen(wizard')) <= 1
       /\ OnScreen(wizard') \subseteq {wizard'.current}
       /\ Len(wizard'.widgets) > Len(wizard.widgets)
            => /\ Len(wizard'.widgets) = Len(wizard.widgets) + 1
               /\ wizard'.current = Len(wizard'.widgets)
               /\ OnScreen(wizard') = {wizard'.current}
               /\ wizard.current # 0
                     => /\ wizard'.widgets[wizard.current].disposed = 1
                        /\ ~wizard'.widgets[wizard.current].shown]_vars

\* A picker is on screen after a text entry and another widget were.
C17_Witness ==
    /\ wizard.state = "running"
    /\ Len(wizard.widgets) = 3
    /\ wizard.widgets[2].kind = "inputBox"
    /\ wizard.widgets[3].kind = "quickPick"
    /\ OnScreen(wizard) = {3}

\* The widgets of kind that the user event by closed.
ClosedWidgets(m, kind, by) ==
    {k \in 1..Len(m.widgets) :
        m.widgets[k].kind = kind /\ m.widgets[k].closedBy = by}

\* C18: the Back button of the widget shown, a picker or a text entry, makes
\* the primitive reject with Back: the step receives no value and the
\* controller goes back, to the previous step when there is one; in the first
\* step run rejects with Back.
C18_BackButtonRejects ==
    [][(Listening(wizard, "button") /\ WizardButton("Back"))
          => LET k == wizard.current
                 call == Len(wizard.calls)
             IN /\ wizard.widgets[k].kind \in {"quickPick", "inputBox"}
                /\ wizard'.widgets[k].closedBy = "back"
                /\ wizard'.received[call] = NoValue
                /\ IF Len(wizard.steps) = 1
                   THEN /\ wizard'.state = "rejected"
                        /\ wizard'.error = InputFlowBack
                        /\ wizard'.calls = wizard.calls
                   ELSE /\ wizard'.state = "running"
                        /\ wizard'.calls
                              = Append(wizard.calls, wizard.calls[call] - 1)]_vars

\* run rejected with Back after the Back button of a text entry and the one
\* of a picker were triggered.
C18_Witness ==
    /\ wizard.state = "rejected"
    /\ wizard.error = InputFlowBack
    /\ ClosedWidgets(wizard, "inputBox", "back") # {}
    /\ ClosedWidgets(wizard, "quickPick", "back") # {}

\* C19: hiding the widget shown, a picker or a text entry, while its
\* primitive is pending makes the primitive reject with Cancel: the step that
\* awaits it receives no value, no step is invoked and run fulfils.
C19_HideCancels ==
    [][(Listening(wizard, "hide") /\ WizardHides)
          => LET k == wizard.current
                 call == Len(wizard.calls)
             IN /\ wizard.widgets[k].kind \in {"quickPick", "inputBox"}
                /\ wizard.received[call] = NoValue
                /\ wizard'.widgets[k].closedBy = "hide"
                /\ wizard'.received = wizard.received
                /\ wizard'.calls = wizard.calls
                /\ wizard'.state = "fulfilled"
                /\ wizard'.error = ""]_vars

\* A picker was hidden after a text entry had been accepted.
C19_Witness ==
    /\ wizard.state = "fulfilled"
    /\ ClosedWidgets(wizard, "quickPick", "hide") # {}
    /\ ClosedWidgets(wizard, "inputBox", "accept") # {}
    /\ wizard.received[Len(wizard.received)] = NoValue

\* validate(v) returns no error message, for the validator of the running
\* step.
Valid(m, v) == Falsy(Validate(Top(m).opts.validate, v))

\* C20: an accept event on the text entry shown resolves showInputBox with
\* the value of the widget when validate(value) returns no message at that
\* moment, whatever message the widget displays; when the value is invalid
\* the primitive stays pending: the step receives nothing, the widget stays
\* current and shown with its subscriptions, and the run goes on waiting.
\* showInputBox never resolves with a value that its validator rejects.
C20_AcceptsValidOnly ==
    [][LET k == wizard.current
           call == Len(wizard.calls)
       IN /\ (Listening(wizard, "accept") /\ \E throws \in BOOLEAN : WizardAccepts(throws))
               => IF Valid(wizard, wizard.widgets[k].value)
                  THEN /\ wizard'.received[call] = wizard.widgets[k].value
                       /\ wizard'.widgets[k].closedBy = "accept"
                       /\ wizard'.widgets[k].subs = {}
                  ELSE /\ wizard'.received = wizard.received
                       /\ wizard'.widgets[k].closedBy = ""
                       /\ wizard'.widgets[k].subs = wizard.widgets[k].subs
                       /\ wizard'.widgets[k].shown
                       /\ wizard'.current = k
                       /\ wizard'.state = "running"
                       /\ wizard'.calls = wizard.calls
          /\ (/\ k # 0
              /\ wizard.widgets[k].kind = "inputBox"
              /\ wizard'.received[call] # wizard.received[call])
               => /\ Valid(wizard, wizard'.received[call])
                  /\ wizard'.received[call] = wizard.widgets[k].value]_vars

\* A first text entry was accepted with "foo"; the second one shows its
\* empty initial value, which its validator rejects, and no message yet: an
\* accept event leaves this state as it is.
C20_Witness ==
    /\ wizard.state = "running"
    /\ wizard.received = <<"foo", NoValue>>
    /\ ClosedWidgets(wizard, "inputBox", "accept") = {1}
    /\ Listening(wizard, "accept")
    /\ wizard.current = 2
    /\ wizard.widgets[2].value = ""
    /\ wizard.widgets[2].validationMessage = Undefined
    /\ ~Valid(wizard, wizard.widgets[2].value)

\* C21: every change of the value of the text entry shown sets the message
\* of the widget to validate(text): a non-empty message while the text is
\* invalid, none once it is valid, whatever message was displayed before.
\* Nothing else of the run changes.
C21_RevalidatesOnChange ==
    [][\A text \in TypedTexts :
          (Listening(wizard, "change") /\ WizardValueChanges(text))
          => LET k == wizard.current
                 message == wizard'.widgets[k].validationMessage
             IN /\ wizard.widgets[k].kind = "inputBox"
                /\ wizard'.widgets[k].value = text
                /\ message = Validate(Top(wizard).opts.validate, text)
                /\ IF Valid(wizard, text)
                   THEN message = Undefined
                   ELSE message # Undefined /\ ~IsEmpty(message)
                /\ wizard'.received = wizard.received
                /\ wizard'.calls = wizard.calls
                /\ wizard'.state = wizard.state]_vars

\* A first text entry shows the message it got for "f", and the entry of the
\* step before it, typed over from "f" to "foo", was accepted with none.
C21_Witness ==
    /\ Len(wizard.widgets) = 2
    /\ wizard.current = 2
    /\ wizard.widgets[2].value = "f"
    /\ wizard.widgets[2].validationMessage = NeedFoo("f")
    /\ wizard.widgets[1].kind = "inputBox"
    /\ wizard.widgets[1].closedBy = "accept"
    /\ wizard.widgets[1].validationMessage = Undefined
    /\ wizard.steps[1].kind = "inputBox"
    /\ wizard.steps[1].opts.value = ""

\* The subscriptions a step primitive pushes on its disposables: the two of
\* configureNavigation and its own.
Registered(kind) ==
    IF kind = "quickPick" THEN {"hide", "button", "selection"}
    ELSE {"hide", "button", "accept", "change"}

\* C22: a step primitive that returned, having resolved, rejected with Back
\* or rejected with Cancel, has disposed each subscription it registered,
\* once, and holds none; while it is pending it holds all of them and has
\* disposed none.
C22_SubscriptionsReleased ==
    \A k \in 1..Len(wizard.widgets) :
        LET w == wizard.widgets[k] IN
        IF w.closedBy = ""
        THEN w.subs = Registered(w.kind) /\ w.released = 0
        ELSE w.subs = {} /\ w.released = Cardinality(Registered(w.kind))

\* A picker resolved with a selection, the text entry after it rejected with
\* Back, and the picker shown again rejected with Cancel: each has released
\* what it registered.
C22_Witness ==
    /\ Len(wizard.widgets) = 3
    /\ wizard.widgets[1].kind = "quickPick"
    /\ wizard.widgets[1].closedBy = "selection"
    /\ wizard.widgets[1].released = 3
    /\ wizard.widgets[2].kind = "inputBox"
    /\ wizard.widgets[2].closedBy = "back"
    /\ wizard.widgets[2].released = 4
    /\ wizard.widgets[3].closedBy = "hide"
    /\ wizard.widgets[3].released = 3
    /\ wizard.state = "fulfilled"

\* C23: whenever showQuickPick resolves, on a change of selection, the value
\* the step receives is an item of opts.items that is part of the selection
\* the event carried, never undefined.
C23_ResolvesSelectedItem ==
    [][\A selectedItems \in Selections, throws \in BOOLEAN :
          (Listening(wizard, "selection") /\ WizardSelects(selectedItems, throws))
          => LET got == wizard'.received[Len(wizard.calls)] IN
             /\ got # Undefined
             /\ got \in Elements(selectedItems)
             /\ got \in Elements(Top(wizard).opts.items)]_vars

\* a is b with some elements left out, the others in the same order.
RECURSIVE IsSubSeq(_, _)
IsSubSeq(a, b) ==
    IF a = <<>> THEN TRUE
    ELSE IF b = <<>> THEN FALSE
    ELSE IF Head(a) = Head(b) THEN IsSubSeq(Tail(a), Tail(b))
    ELSE IsSubSeq(a, Tail(b))

\* C24: handleUri calls every listener subscribed at that moment with the
\* URI, once, and no other listener; it does so for every URI, with or
\* without a nonce or a code, so that each listener has received the URIs
\* handled while it was subscribed, in the order they were handled.
C24_DeliversToEveryListener ==
    [][/\ \A uri \in DeepLinks :
            HandlerHandles(uri)
            => \A l \in Listeners :
                  uriHandler'.delivered[l] =
                      IF l \in uriHandler.listeners
                      THEN Append(uriHandler.delivered[l], uri)
                      ELSE uriHandler.delivered[l]
       /\ \A l \in Listeners :
            IsSubSeq(uriHandler'.delivered[l], uriHandler'.handled)]_vars

\* Two URIs were handled, the first without a nonce: the listener subscribed
\* throughout received both in order, the one that subscribed in between
\* received the second only.
C24_Witness ==
    /\ Len(uriHandler.handled) = 2
    /\ ~Present(LinkNonce(uriHandler.handled[1]))
    /\ Present(LinkNonce(uriHandler.handled[2]))
    /\ uriHandler.delivered["a"] = uriHandler.handled
    /\ uriHandler.delivered["b"] = <<uriHandler.handled[2]>>
    /\ uriHandler.listeners = Listeners

\* The sessions that can be in store: those of the tests and those
\* createSession builds.
StorableSessions ==
    Sessions \cup
    {NewSession(Uuid(n), AccessToken, UserInfo, SortedScopes(scopes)) :
        n \in 1..(2 * MaxLogins), scopes \in RequestedScopes}

\* C25: storeSession(s) leaves exactly s in store, whatever was stored
\* before, and getSession returns the session that was in store when it
\* read the secret, as it was given to storeSession, and undefined when
\* nothing was; it never throws on what storeSession wrote.
C25_StorageRoundTrip ==
    [][\A c \in Calls :
          /\ \A s \in Sessions :
                CallStoreSession(c, s)
                => /\ secrets' = Secret(JsonStringify(<<s>>))
                   /\ GetSession(secrets') = [threw |-> FALSE, value |-> s]
          /\ CallGetSession(c) => authCalls'[c].read = secrets
          /\ GetSessionReturns(c)
                => /\ authCalls'[c].error = ""
                   /\ IF authCalls[c].read = NoSecret
                      THEN authCalls'[c].ret = NoSession
                      ELSE \E s \in StorableSessions :
                              /\ authCalls[c].read = Secret(JsonStringify(<<s>>))
                              /\ authCalls'[c].ret = s]_vars

\* The first call stored the default session, a second one stored a session
\* with another id over it, and the third call, getSession, returned that
\* second session.
C25_Witness ==
    /\ authCalls[1].op = "storeSession"
    /\ authCalls[1].session = DEFAULT_SESSION
    /\ authCalls[1].nth = 1
    /\ authCalls[2].op = "getSession"
    /\ authCalls[2].pc = "done"
    /\ authCalls[2].nth = 3
    /\ authCalls[2].ret = [DEFAULT_SESSION EXCEPT !.id = "2"]

\* The session in store.
Stored == GetSession(secrets).value

\* C26: removeSession(id) calls secrets.delete and returns a session only
\* for a session with that id, and the session it returns is the one that
\* was in store when it deleted; when the session it found is absent or has
\* another id it returns undefined, calls no delete and leaves the store as
\* it is.
C26_RemovesOnlyMatching ==
    [][\A c \in Calls :
          /\ RemoveSessionReads(c)
                => LET found == GetSession(authCalls[c].read).value IN
                   IF found # NoSession /\ found.id = authCalls[c].sessionId
                   THEN /\ authCalls'[c].deletes = 1
                        /\ secrets' = NoSecret
                        /\ authCalls'[c].session = found
                        /\ Stored = found
                   ELSE /\ secrets' = secrets
                        /\ authCalls'[c].deletes = 0
                        /\ authCalls'[c].pc = "done"
                        /\ authCalls'[c].ret = NoSession
                        /\ authCalls'[c].error = ""
          /\ RemoveSessionReturns(c)
                => /\ authCalls'[c].ret = authCalls[c].session
                   /\ authCalls'[c].ret.id = authCalls[c].sessionId
                   /\ secrets' = secrets]_vars

\* createSession call c fails in this step: waitForCode throws as the call
\* is made, or the call awaited rejects.
LoginFails(c) ==
    \/ \E scopes \in RequestedScopes : CallCreateSession(c, scopes, TRUE)
    \/ CreateSessionFails(c)

\* C27: when the login of createSession fails, at waitForCode, at an awaited
\* host call, at the token exchange or at the user-info fetch, the window
\* shows "Sign in failed: <message of the error>" once, createSession
\* rejects with that error, nothing is stored and no event is fired.
C27_LoginFailureReported ==
    [][\A c \in Calls :
          LoginFails(c)
          => /\ authCalls'[c].pc = "done"
             /\ authCalls'[c].error # ""
             /\ authCalls'[c].ret = NoSession
             /\ messages' = Append(messages, SignInFailed(authCalls'[c].error))
             /\ secrets' = secrets
             /\ sessionEvents' = sessionEvents]_vars

\* The token exchange of a createSession call failed: the call rejected, the
\* failure was shown, and neither a session nor an event came of it.
C27_Witness ==
    \E c \in Calls :
        /\ authCalls[c].op = "createSession"
        /\ authCalls[c].pc = "done"
        /\ authCalls[c].error = "No access token returned"
        /\ messages = <<SignInFailed("No access token returned")>>
        /\ secrets = NoSecret
        /\ sessionEvents = <<>>

\* The place of a scope in the order of sort().
ScopeRank(scope) == CHOOSE k \in 1..Len(ScopeOrder) : ScopeOrder[k] = scope

\* C28: createSession sorts the union of the requested and the required
\* scopes, each once; when login and user info have succeeded it builds a
\* session with these scopes and calls storeSession with it, firing nothing
\* yet; when the storing has settled it fires one event, with that session
\* as the only added one and nothing removed or changed, and returns the
\* session.  No other step of the call fires an event.
C28_CreateSessionSucceeds ==
    [][\A c \in Calls :
          /\ \A scopes \in RequestedScopes :
                CallCreateSession(c, scopes, FALSE)
                => LET sorted == authCalls'[c].scopes IN
                   /\ Elements(sorted) = Elements(scopes) \cup {"profile", "email"}
                   /\ \A j \in 1..(Len(sorted) - 1) :
                         ScopeRank(sorted[j]) < ScopeRank(sorted[j + 1])
                   /\ sessionEvents' = sessionEvents
          /\ CreateSessionAdvances(c)
                => LET call == authCalls[c] IN
                   CASE call.pc = "getUserInfo" ->
                          /\ authCalls'[c].session.scopes = call.scopes
                          /\ authCalls'[c].session.accessToken = AccessToken
                          /\ secrets' = Secret(JsonStringify(<<authCalls'[c].session>>))
                          /\ sessionEvents' = sessionEvents
                          /\ authCalls'[c].pc = "storeSession"
                     [] call.pc = "storeSession" ->
                          /\ authCalls'[c].pc = "done"
                          /\ authCalls'[c].ret = call.session
                          /\ authCalls'[c].error = ""
                          /\ sessionEvents' =
                                Append(sessionEvents,
                                       [added |-> <<call.session>>,
                                        removed |-> <<>>, changed |-> <<>>])
                     [] OTHER ->
                          /\ sessionEvents' = sessionEvents
                          /\ secrets' = secrets]_vars

\* createSession was asked for openid and drive, openid twice: it returned
\* a session with drive, email, openid and profile, which is in store and
\* is the added session of the only event.
C28_Witness ==
    \E c \in Calls :
        /\ authCalls[c].op = "createSession"
        /\ authCalls[c].pc = "done"
        /\ authCalls[c].ret # NoSession
        /\ authCalls[c].ret.scopes = <<"drive", "email", "openid", "profile">>
        /\ Stored = authCalls[c].ret
        /\ sessionEvents = <<SessionAdded(authCalls[c].ret)>>
        /\ messages = <<SignedIn>>

\* C29: a removeSession call of the provider fires an event exactly when the
\* storage removed a session for it: the call goes on to fire, having
\* called secrets.delete, if and only if that call took a session out of
\* the store, the event then names that session as the only removed one
\* with nothing added or changed, and a call for which the storage reports
\* nothing removed fires nothing.
C29_EventIffRemoved ==
    [][\A c \in Calls :
          /\ RemoveSessionReads(c)
                => /\ sessionEvents' = sessionEvents
                   /\ authCalls'[c].pc = "delete"
                         <=> (Stored # NoSession /\ secrets' = NoSecret)
                   /\ authCalls'[c].pc = "delete"
                         => authCalls'[c].session = Stored
                   /\ authCalls'[c].pc = "done"
                         => authCalls'[c].ret = NoSession
          /\ RemoveSessionReturns(c)
                => sessionEvents' =
                       Append(sessionEvents,
                              [added |-> <<>>,
                               removed |-> <<authCalls[c].session>>,
                               changed |-> <<>>])]_vars

\* What a step that calls resolveCode(n, code) leaves alone: the entries of
\* the other nonces, and for every invocation but the one pending under n
\* its promise, its timer, where it is suspended and what trigger returned;
\* all of it, with no exception raised, when nothing is pending under n.
ResolveFrame(n) ==
    LET owner == IF n \in Nonces THEN codeManager.inFlight[n] ELSE NoOwner IN
    /\ \A m \in Nonces \ {n} : codeManager'.inFlight[m] = codeManager.inFlight[m]
    /\ \A j \in Invs \ {owner} :
          /\ codeManager'.promise[j] = codeManager.promise[j]
          /\ codeManager'.timer[j] = codeManager.timer[j]
          /\ codeManager'.settles[j] = codeManager.settles[j]
          /\ pc'[j] = pc[j]
          /\ result'[j] = result[j]
    /\ owner = NoOwner
          => codeManager' = codeManager /\ pc' = pc /\ result' = result /\ ~uncaught'

\* C30: resolveCode(n, code), whether a deep link or an accepted manual
\* entry calls it, touches the request pending under n only: without one it
\* changes nothing and raises nothing, and the requests pending under other
\* nonces keep their promises and timers, so an invocation never gets the
\* code sent for the nonce of another.  (A deep link leaves the prompts, the
\* nonces and the clock as they are; an accepted entry changes its prompt.)
C30_ResolveCodeIsolated ==
    [][/\ \/ <<input, nonceOf, now>>' # <<input, nonceOf, now>>
          \/ \A uri \in MatchingLinks :
                ResolveFrame(LinkNonce(uri).val) \/ ~HandleUri(uri)
       /\ \A i \in Invs :
            \/ ~Prompting(i, "accept")
            \/ input'[i] = input[i]
            \/ ResolveFrame(nonceOf[i])
            \/ ~UserAccepts(i)]_vars

\* Two invocations registered distinct nonces; a deep link for the first
\* resolved it, the second is still pending with its timer armed.
C30_Witness ==
    /\ nonceOf[1] = "n1"
    /\ nonceOf[2] = "n2"
    /\ result[1] = Fulfilled("42", PROXIED_REDIRECT_URI)
    /\ codeManager.promise[2].state = "pending"
    /\ codeManager.timer[2] # NoTimer
    /\ codeManager.inFlight["n2"] = 2
    /\ result[2] = NoResult

\* The running step of the wizard throws an error of its own: a step that
\* shows nothing, or one that took the value of its text entry or picker.
RaisesOther ==
    \/ WizardStubSettles("boom")
    \/ /\ Listening(wizard, "accept")
       /\ Falsy(Validate(Top(wizard).opts.validate,
                         wizard.widgets[wizard.current].value))
       /\ WizardAccepts(TRUE)
    \/ \E sel \in Selections : WizardSelects(sel, TRUE)

\* C31: when the running step throws anything but Back and Cancel, run
\* rejects at once with that same error, no step is invoked in that step or
\* later, and the stack is left as it was (nothing is popped to go back).
C31_OtherErrorPropagates ==
    [][/\ (wizard.state = "running" /\ RaisesOther)
            => /\ wizard'.state = "rejected"
               /\ wizard'.error = "boom"
               /\ wizard'.calls = wizard.calls
               /\ wizard'.steps = wizard.steps
       /\ wizard.error = "boom"
            => /\ wizard'.calls = wizard.calls
               /\ wizard'.error = "boom"
               /\ wizard'.state = "rejected"]_vars

\* The third step of a chain threw after the flow had gone back once: run
\* rejected with the error, three steps still on the stack.
C31_Witness ==
    /\ wizard.state = "rejected"
    /\ wizard.error = "boom"
    /\ wizard.calls = <<1, 2, 1, 2, 3>>
    /\ Len(wizard.steps) = 3

\* Strings a user can paste, the empty one among them.
PastedTexts == Texts \cup {" ", "ssssssssss"}

\* C32: the validator of the prompt answers "Authorization code cannot be
\* empty" for the empty string and nothing for a non-empty one, on a change
\* of value and on accept; an accept of the empty value feeds nothing to the
\* registry and leaves the prompt open, so a prompt closed by accept holds a
\* non-empty value, the one resolveCode was given.
C32_NoEmptyCodeFromPrompt ==
    [][/\ \A text \in PastedTexts :
            PromptValidate(text) =
                IF text = "" THEN "Authorization code cannot be empty"
                ELSE Undefined
       /\ \A i \in Invs :
            /\ \A text \in Texts :
                 (Prompting(i, "change") /\ UserChangesValue(i, text))
                 => input'[i].widgets[input[i].current].validationMessage
                        = IF text = "" THEN "Authorization code cannot be empty"
                          ELSE Undefined
            /\ (Prompting(i, "accept") /\ UserAccepts(i))
                 => LET value == input[i].widgets[input[i].current].value IN
                    IF value = ""
                    THEN /\ codeManager' = codeManager
                         /\ result' = result
                         /\ Prompting(i, "accept")'
                    ELSE /\ ClosedBy(i)' = "accept"
                         /\ Waiting(i) => codeManager'.promise[i] = Resolution(value)
            /\ ClosedBy(i)' = "accept" => input'[i].widgets[1].value # ""]_vars

\* One prompt was accepted with a pasted code, which resolved its request;
\* the other holds the empty value, shows the validator's message and is
\* still open.
C32_Witness ==
    /\ ClosedBy(1) = "accept"
    /\ codeManager.promise[1] = Resolution("7")
    /\ Prompting(2, "accept")
    /\ input[2].widgets[1].value = ""
    /\ input[2].widgets[1].validationMessage = "Authorization code cannot be empty"

\* C33: every widget the manual-entry prompt has on screen is masked (its
\* password attribute is set, as the options of the prompt ask) and carries
\* no button.
C33_PromptMaskedNoButtons ==
    \A i \in Invs : \A k \in 1..Len(input[i].widgets) :
        input[i].widgets[k].shown
        => /\ input[i].widgets[k].password = PromptOpts.password
           /\ input[i].widgets[k].password
           /\ input[i].widgets[k].buttons = {}

\* C34: a Back raised in the manual-entry prompt is rethrown by the step, so
\* the wizard rejects with Back; the registry, the cancellation source and
\* the outcome of trigger are left as they were, a pending request stays
\* pending.
C34_BackReraised ==
    [][\A i \in Invs :
          (Prompting(i, "button") /\ UserTriggersButton(i, "Back"))
          => /\ input'[i].state = "rejected"
             /\ input'[i].error = InputFlowBack
             /\ codeManager' = codeManager
             /\ cts' = cts
             /\ result' = result
             /\ pc' = pc
             /\ Waiting(i) => codeManager'.promise[i].state = "pending"]_vars

\* After Back closed its prompt the request stayed pending, and a deep link
\* resolved it later.
C34_Witness ==
    \E i \in Invs :
        /\ ClosedBy(i) = "back"
        /\ input[i].error = InputFlowBack
        /\ ~cts[i].cancelled
        /\ result[i] = Fulfilled("42", PROXIED_REDIRECT_URI)

\* C35: whenever a step is invoked it is on top of the stack, and the widget
\* that was current at that moment has been disabled and marked busy before
\* the step ran: it is disabled and busy afterwards, also when the step
\* replaced it, while a widget the step itself showed is enabled and not
\* busy.
C35_GreyedOutBeforeStep ==
    [][Len(wizard'.calls) = Len(wizard.calls) + 1
          => /\ Len(wizard'.steps) >= 1
             /\ Top(wizard').id = wizard'.calls[Len(wizard'.calls)]
             /\ wizard.current # 0
                   => /\ ~wizard'.widgets[wizard.current].enabled
                      /\ wizard'.widgets[wizard.current].busy
             /\ wizard'.current # wizard.current
                   => /\ wizard'.widgets[wizard'.current].enabled
                      /\ ~wizard'.widgets[wizard'.current].busy
                      /\ wizard'.widgets[wizard'.current].shown]_vars

\* The second step runs without a widget of its own: the text entry of the
\* first step is still the current one, on screen, disabled and busy.
C35_Witness ==
    /\ wizard.state = "running"
    /\ wizard.calls = <<1, 2>>
    /\ Top(wizard).id = 2
    /\ Top(wizard).kind = "none"
    /\ wizard.current = 1
    /\ wizard.widgets[1].shown
    /\ ~wizard.widgets[1].enabled
    /\ wizard.widgets[1].busy

\* The value read from the store holds exactly one session, all its fields
\* there.
HoldsOneSession(text) ==
    /\ text.stored
    /\ Len(text.json) = 1
    /\ \E s \in Sessions : text.json[1] = JsonObject(s)

\* C36: getSession returns undefined when nothing is stored, the session when
\* the stored array holds exactly one conforming session, and throws for any
\* other stored array (empty, two sessions, an element that is no session);
\* getSessions returns the empty list, the list of that one session, or
\* throws, so its list never has more than one element; and what storeSession
\* leaves in the store is one session.
C36_AtMostOneSession ==
    [][\A c \in Calls :
          LET read == authCalls[c].read
              call == authCalls'[c]
          IN
          /\ GetSessionReturns(c)
                => CASE ~read.stored -> call.ret = NoSession /\ call.error = ""
                     [] HoldsOneSession(read) ->
                            /\ call.error = ""
                            /\ call.ret \in Sessions
                            /\ JsonObject(call.ret) = read.json[1]
                     [] OTHER -> call.error # "" /\ call.ret = NoSession
          /\ GetSessionsReturns(c)
                => /\ Len(call.list) <= 1
                   /\ CASE ~read.stored -> call.list = <<>> /\ call.error = ""
                        [] HoldsOneSession(read) ->
                               /\ call.error = ""
                               /\ Len(call.list) = 1
                               /\ JsonObject(call.list[1]) = read.json[1]
                        [] OTHER -> call.error # "" /\ call.list = <<>>
          /\ (\E s \in Sessions : CallStoreSession(c, s))
                => HoldsOneSession(secrets')]_vars

\* The store holds two sessions: a getSessions that read it threw, one that
\* had read a single session before returned a list of one.
C36_Witness ==
    /\ secrets.stored
    /\ Len(secrets.json) = 2
    /\ authCalls[1].op = "getSessions"
    /\ authCalls[1].pc = "done"
    /\ authCalls[1].list = <<DEFAULT_SESSION>>
    /\ authCalls[2].op = "getSessions"
    /\ authCalls[2].pc = "done"
    /\ authCalls[2].error # ""
    /\ authCalls[2].nth > authCalls[1].nth

\* C37: in trigger and in login the request for the nonce was registered
\* with waitForCode in an earlier step than the one that hands the
\* authorization URL to openExternal; the prompt of trigger starts in the
\* step where openExternal has resolved and in no other; a deep link for the
\* nonce handled once the URL is open, while the request is pending, resolves
\* the request.
C37_RegisteredBeforeOpened ==
    [][/\ \A i \in Invs :
            /\ (opened[i] = NoUrl /\ opened'[i] # NoUrl)
                  => /\ codeManager.promise[i].state = "pending"
                        \/ Settled(codeManager.promise[i])
                     /\ nonceOf[i] \in Nonces
                     /\ input[i].state = "none"
            /\ (input[i].state = "none" /\ input'[i].state # "none")
                  => /\ pc[i] = "opening"
                     /\ opened[i] # NoUrl
                     /\ OpenExternalReturns(i)
            /\ \A uri \in MatchingLinks :
                  (/\ opened[i] # NoUrl
                   /\ Waiting(i)
                   /\ LinkNonce(uri).val = nonceOf[i]
                   /\ HandleUri(uri))
                  => codeManager'.promise[i] = Resolution(LinkCode(uri).val)
       /\ \A c \in Calls :
            /\ (authCalls[c].pc # "openExternal" /\ authCalls'[c].pc = "openExternal")
                  => /\ authCalls[c].op = "createSession"
                     /\ authCalls[c].nonce # ""
                     /\ authCalls'[c].nonce = authCalls[c].nonce
            /\ (authCalls'[c].op = "createSession"
                /\ authCalls'[c].pc \in {"promisedCode", "getToken"})
                  => authCalls'[c].nonce # ""]_vars

\* A deep link that arrived while openExternal was still awaited, before the
\* prompt was started, resolved the request of trigger, and a login of the
\* provider awaits the code for its nonce with the URL open.
C37_Witness ==
    /\ pc[1] = "opening"
    /\ codeManager.promise[1] = Resolution("42")
    /\ opened[1] # NoUrl
    /\ input[1].state = "none"
    /\ authCalls[1].op = "createSession"
    /\ authCalls[1].pc = "promisedCode"
    /\ authCalls[1].nonce = Uuid(1)

\* The stack of m is the chain from the first step to the one being run: the
\* k-th entry is the k-th step of the chain and returns the entry above it.
StackIsChain(m) ==
    /\ Len(m.steps) >= 1
    /\ Top(m).id = m.calls[Len(m.calls)]
    /\ Len(m.steps) = Top(m).id
    /\ \A k \in 1..Len(m.steps) : m.steps[k].id = k
    /\ \A k \in 1..(Len(m.steps) - 1) : m.steps[k].next = m.steps[k + 1]

\* C38: while a step runs it is on top of the stack, the stack is the chain
\* of steps that leads from the start step to it, so its length is the depth
\* of the running step whatever the number of forward and Back moves before,
\* and the start step stays at the bottom.
C38_StackIsChain ==
    [][wizard'.state = "running"
          => /\ StackIsChain(wizard')
             /\ Len(wizard'.steps) <= MaxSteps
             /\ wizard.state = "running" => wizard'.steps[1] = wizard.steps[1]]_vars

\* After going forward to the third step and back twice, the second step
\* runs with two steps on the stack.
C38_Witness ==
    /\ wizard.state = "running"
    /\ wizard.calls = <<1, 2, 3, 2, 3, 2>>
    /\ Len(wizard.steps) = 2
    /\ Top(wizard).id = 2

\* C39: a button other than Back triggered on the widget shown settles
\* nothing: the widgets with their subscriptions, the current widget, the
\* values received and the order of invocation are as before, the run goes on
\* and the widget still listens; a primitive is settled, its subscriptions
\* released, by an accept, a selection, a hide or the Back button only.
C39_OtherButtonIgnored ==
    [][/\ \A b \in QuickInputButtons \ {"Back"} :
            (Listening(wizard, "button") /\ WizardButton(b))
            => /\ wizard'.widgets = wizard.widgets
               /\ wizard'.current = wizard.current
               /\ wizard'.received = wizard.received
               /\ wizard'.calls = wizard.calls
               /\ wizard'.steps = wizard.steps
               /\ wizard'.state = "running"
               /\ Listening(wizard, "button")'
       /\ (Listening(wizard, "button")
           /\ wizard'.widgets[wizard.current].subs # wizard.widgets[wizard.current].subs)
            => /\ wizard'.widgets[wizard.current].subs = {}
               /\ wizard'.widgets[wizard.current].closedBy
                    \in {"accept", "selection", "hide", "back"}]_vars

\* The picker of the second step is on screen with its three subscriptions,
\* the state in which a button other than Back finds it and leaves it.
C39_Witness ==
    /\ wizard.state = "running"
    /\ wizard.calls = <<1, 2>>
    /\ wizard.current = 2
    /\ wizard.widgets[2].kind = "quickPick"
    /\ wizard.widgets[2].subs = {"hide", "button", "selection"}
    /\ wizard.widgets[2].closedBy = ""
    /\ ENABLED WizardButton("Other")

====
